---- MODULE Spec2Model ----
(***************************************************************************)
(* The LLM analysis layer of Gmail-MCP-Server: the result cache (LLMCache), *)
(* the token tracker, the tier configuration (getLLMConfig), the structured *)
(* output call (generateStructuredOutput), the three analysis facades       *)
(* (categorizeEmail, extractEmailContext, detectColdEmail) and the batch    *)
(* orchestrator (batchAnalyzeEmails).                                       *)
(*                                                                          *)
(* Conventions.  A JS string is a sequence of tokens (the empty string is   *)
(* <<>>, which is falsy); an object is a record; null/undefined is Null.    *)
(* A confidence c in [0,1] is the integer 100*c.  A call that can throw     *)
(* returns [ok |-> FALSE, error |-> e] instead.  An async function runs in  *)
(* segments: one action runs a task from one await to the next.             *)
(***************************************************************************)
EXTENDS Integers, Sequences, FiniteSets, TLC

(***************************************************************************)
(* Bounds of the model                                                      *)
(***************************************************************************)
MaxEpoch == 1
MaxDrift == 1
MaxCalls == 2
MaxBatchLen == 3
MaxTracked == 1002
MaxLiveLen == 2
MaxItems == 3
MaxRounds == 4

(***************************************************************************)
(* Program constants                                                        *)
(***************************************************************************)
TTL == 60 * 60 * 1000
MaxBatchSize == 50
MaxUsage == 1000

Null == [null |-> TRUE]

\* The instants Date.now() takes in the model: around each multiple of TTL.
Instants == {e * TTL + d : e \in 0..MaxEpoch, d \in 0..MaxDrift}

(***************************************************************************)
(* LLMCache                                                                 *)
(***************************************************************************)
\* A set that rebuilds the map with the one entry
LLMCache_set_dropsOthers(c, key, data, t) ==
  [k \in {key} |-> [data |-> data, timestamp |-> t]]

\* set(key, data): this.cache.set(key, {data, timestamp: new Date()})
LLMCache_set(c, key, data, t) ==
  [k \in DOMAIN c \cup {key} |->
     IF k = key THEN [data |-> data, timestamp |-> t] ELSE c[k]]

\* Mutant: the TTL taken in seconds where the clock counts milliseconds
Expired_ttlInSeconds(entry, t, l) == t - entry.timestamp > l \div 1000

\* The expiry test of get: Date.now() - entry.timestamp.getTime() > this.ttl
Expired(entry, t, l) == t - entry.timestamp > l

\* Mutant: an expired entry is reported absent but left in the map
LLMCache_get_keepsExpired(c, key, t, l) ==
  IF key \notin DOMAIN c \/ Expired(c[key], t, l)
    THEN [ret |-> Null, cache |-> c]
    ELSE [ret |-> c[key].data, cache |-> c]

\* get(key): [ret |-> the value returned, cache |-> the map afterwards]
\* A get that returns the stored entry rather than its data
LLMCache_get_returnsEntry(c, key, t, l) ==
  IF key \notin DOMAIN c THEN [ret |-> Null, cache |-> c]
  ELSE IF Expired(c[key], t, l)
    THEN [ret |-> Null, cache |-> [k \in DOMAIN c \ {key} |-> c[k]]]
    ELSE [ret |-> c[key], cache |-> c]

LLMCache_get(c, key, t, l) ==
  IF key \notin DOMAIN c
    THEN [ret |-> Null, cache |-> c]
    ELSE IF Expired(c[key], t, l)
      THEN [ret |-> Null, cache |-> [k \in DOMAIN c \ {key} |-> c[k]]]
      ELSE [ret |-> c[key].data, cache |-> c]

\* has(key): this.get(key) !== null
LLMCache_has(c, key, t, l) ==
  LET g == LLMCache_get(c, key, t, l)
  IN  [ret |-> [bool |-> g.ret # Null], cache |-> g.cache]

\* clear()
LLMCache_clear(c) == [k \in {} |-> Null]


(***************************************************************************)
(* Configuration: getLLMConfig and its helpers                              *)
(***************************************************************************)
\* a || b on strings: the empty (or unset) string is falsy
Or(a, b) == IF a # "" THEN a ELSE b

Throw(e) == [ok |-> FALSE, error |-> e]
Return(v) == [ok |-> TRUE, value |-> v]

Error(message, arg) == [message |-> message, arg |-> arg]

getDefaultModelForProvider(provider) ==
  CASE provider = "anthropic" -> "claude-sonnet-4-5-20250929"
    [] provider = "openai" -> "gpt-4o"
    [] provider = "google" -> "gemini-2.0-flash-exp"
    [] OTHER -> "claude-sonnet-4-5-20250929"

getEconomyModelForProvider(provider) ==
  CASE provider = "anthropic" -> "claude-haiku-4-5-20250929"
    [] provider = "openai" -> "gpt-4o-mini"
    [] provider = "google" -> "gemini-2.0-flash-exp"
    [] OTHER -> "claude-haiku-4-5-20250929"

\* A key lookup whose default case returns no key instead of throwing
getApiKeyForProvider_noDefaultThrow(e, provider) ==
  CASE provider = "anthropic" ->
         IF e.ANTHROPIC_API_KEY = ""
           THEN Throw(Error("ANTHROPIC_API_KEY environment variable is required for Anthropic provider", ""))
           ELSE Return(e.ANTHROPIC_API_KEY)
    [] provider = "openai" ->
         IF e.OPENAI_API_KEY = ""
           THEN Throw(Error("OPENAI_API_KEY environment variable is required for OpenAI provider", ""))
           ELSE Return(e.OPENAI_API_KEY)
    [] provider = "google" ->
         IF e.GOOGLE_AI_API_KEY = ""
           THEN Throw(Error("GOOGLE_AI_API_KEY environment variable is required for Google provider", ""))
           ELSE Return(e.GOOGLE_AI_API_KEY)
    [] OTHER -> Return("")

getApiKeyForProvider(e, provider) ==
  CASE provider = "anthropic" ->
         IF e.ANTHROPIC_API_KEY = ""
           THEN Throw(Error("ANTHROPIC_API_KEY environment variable is required for Anthropic provider", ""))
           ELSE Return(e.ANTHROPIC_API_KEY)
    [] provider = "openai" ->
         IF e.OPENAI_API_KEY = ""
           THEN Throw(Error("OPENAI_API_KEY environment variable is required for OpenAI provider", ""))
           ELSE Return(e.OPENAI_API_KEY)
    [] provider = "google" ->
         IF e.GOOGLE_AI_API_KEY = ""
           THEN Throw(Error("GOOGLE_AI_API_KEY environment variable is required for Google provider", ""))
           ELSE Return(e.GOOGLE_AI_API_KEY)
    [] OTHER -> Throw(Error("Unknown provider: ", provider))

\* A resolution that looks up the economy key only when the economy tier is used
getLLMConfig_lazyEconomyKey(e) ==
  LET provider == Or(e.LLM_PROVIDER, "anthropic")
      economyProvider == Or(e.ECONOMY_LLM_PROVIDER, provider)
      defaultModel == Or(e.LLM_MODEL, getDefaultModelForProvider(provider))
      defaultApiKey == getApiKeyForProvider(e, provider)
      economyModel == Or(e.ECONOMY_LLM_MODEL, getEconomyModelForProvider(economyProvider))
      economyApiKey == getApiKeyForProvider(e, economyProvider)
  IN  IF ~defaultApiKey.ok THEN defaultApiKey
      ELSE Return([default |-> [provider |-> provider, model |-> defaultModel,
                                apiKey |-> defaultApiKey.value],
                   economy |-> [provider |-> economyProvider, model |-> economyModel,
                                apiKey |-> IF economyApiKey.ok THEN economyApiKey.value
                                                               ELSE ""]])

\* getLLMConfig(): the two tiers, or the error of the first key lookup that throws
getLLMConfig(e) ==
  LET provider == Or(e.LLM_PROVIDER, "anthropic")
      economyProvider == Or(e.ECONOMY_LLM_PROVIDER, provider)
      defaultModel == Or(e.LLM_MODEL, getDefaultModelForProvider(provider))
      defaultApiKey == getApiKeyForProvider(e, provider)
      economyModel == Or(e.ECONOMY_LLM_MODEL, getEconomyModelForProvider(economyProvider))
      economyApiKey == getApiKeyForProvider(e, economyProvider)
  IN  IF ~defaultApiKey.ok THEN defaultApiKey
      ELSE IF ~economyApiKey.ok THEN economyApiKey
      ELSE Return([default |-> [provider |-> provider, model |-> defaultModel,
                                apiKey |-> defaultApiKey.value],
                   economy |-> [provider |-> economyProvider, model |-> economyModel,
                                apiKey |-> economyApiKey.value]])

\* getProvider(config): the vendor adapter, or the error of the default case
getProvider(config) ==
  IF config.provider \in {"anthropic", "openai", "google"}
    THEN Return([sdk |-> config.provider, apiKey |-> config.apiKey])
    ELSE Throw(Error("Unsupported provider: ", config.provider))

(***************************************************************************)
(* TokenTracker                                                             *)
(***************************************************************************)
\* track(usage): push, then keep the last MaxUsage records (slice(-1000))
\* slice(0, 1000) instead of slice(-1000): the oldest records are kept
TokenTracker_track_keepsOldest(u, rec) ==
  LET a == Append(u, rec)
  IN  IF Len(a) > MaxUsage THEN SubSeq(a, 1, MaxUsage) ELSE a

\* A track that writes over the newest record instead of pushing
TokenTracker_track_overwrites(u, rec) ==
  IF u = <<>> THEN <<rec>> ELSE [u EXCEPT ![Len(u)] = rec]

TokenTracker_track(u, rec) ==
  LET a == Append(u, rec)
  IN  IF Len(a) > MaxUsage THEN SubSeq(a, Len(a) - MaxUsage + 1, Len(a)) ELSE a

\* getUsage with the comparison u.timestamp > since
TokenTracker_getUsage_strictlyAfter(u, since) ==
  IF since = <<>> THEN u ELSE SelectSeq(u, LAMBDA r : r.timestamp > since[1])

\* getUsage(since?): if (!since) return this.usage; a Date is never falsy.
\* since is <<>> when omitted, <<t>> when given
TokenTracker_getUsage(u, since) ==
  IF since = <<>> THEN u ELSE SelectSeq(u, LAMBDA r : r.timestamp >= since[1])

\* filtered.reduce((acc, u) => ({input: acc.input + u.inputTokens, output:
\* acc.output + u.outputTokens}), {input: 0, output: 0}) over records lo..hi.  The
\* additions are of integers, so the fold is computed by halves, which keeps the
\* evaluation shallow.
RECURSIVE Reduce(_, _, _)
Reduce(filtered, lo, hi) ==
  IF lo > hi THEN [input |-> 0, output |-> 0]
  ELSE IF lo = hi THEN [input |-> filtered[lo].inputTokens,
                        output |-> filtered[lo].outputTokens]
  ELSE LET mid == (lo + hi) \div 2
           a == Reduce(filtered, lo, mid)
           b == Reduce(filtered, mid + 1, hi)
       IN  [input |-> a.input + b.input, output |-> a.output + b.output]

\* getTotalTokens(since?)
TokenTracker_getTotalTokens(u, since) ==
  LET filtered == TokenTracker_getUsage(u, since)
  IN  Reduce(filtered, 1, Len(filtered))

(***************************************************************************)
(* Output schemas                                                           *)
(***************************************************************************)
Categories == {"NEWSLETTER", "MARKETING", "CALENDAR", "RECEIPT", "NOTIFICATION",
               "PERSONAL", "WORK", "COLD_EMAIL"}
ColdEmailTypes == {"SALES", "RECRUITMENT", "PARTNERSHIP", "LEGITIMATE", "UNKNOWN"}
SuggestedActions == {"ARCHIVE", "LABEL_COLD", "ALLOW", "REVIEW"}

\* z.number().min(0).max(1), on a confidence held in hundredths
Confidence01(c) == c \in Int /\ 0 <= c /\ c <= 100

CategorizationResultSchema(o) ==
  /\ {"category", "confidence", "reasoning"} \subseteq DOMAIN o
  /\ o.category \in Categories
  /\ Confidence01(o.confidence)

ColdEmailResultSchema(o) ==
  /\ {"isColdEmail", "coldEmailType", "confidence", "reasoning", "suggestedAction"}
        \subseteq DOMAIN o
  /\ o.isColdEmail \in BOOLEAN
  /\ o.coldEmailType \in ColdEmailTypes
  /\ Confidence01(o.confidence)
  /\ o.suggestedAction \in SuggestedActions

\* summary is held as [text, chars]: z.string().max(500) bounds chars
ContextExtractionResultSchema(o) ==
  /\ {"summary", "keyPoints", "actionItems", "people", "dates", "relevantContext",
      "confidence"} \subseteq DOMAIN o
  /\ o.summary.chars <= 500
  /\ Confidence01(o.confidence)

Conforms(schema, o) ==
  CASE schema = "CategorizationResultSchema" -> CategorizationResultSchema(o)
    [] schema = "ColdEmailResultSchema" -> ColdEmailResultSchema(o)
    [] schema = "ContextExtractionResultSchema" -> ContextExtractionResultSchema(o)

(***************************************************************************)
(* Prompt builders                                                          *)
(***************************************************************************)
DefaultCategoryList == <<"NEWSLETTER", "MARKETING", "CALENDAR", "RECEIPT",
                         "NOTIFICATION", "PERSONAL", "WORK", "COLD_EMAIL">>

\* customCategories?.length ? customCategories.join(', ') : the default list
getCategorizationPrompt(from, subject, snippet, customCategories) ==
  LET categories == IF customCategories # Null /\ Len(customCategories.list) > 0
                      THEN customCategories.list ELSE DefaultCategoryList
  IN  [system |-> <<"categorization system", categories>>,
       prompt |-> <<"Categorize this email", from, subject, snippet>>]

getColdEmailPrompt(from, subject, body, userProfile) ==
  LET profileContext == IF userProfile # Null
                          THEN <<"User Context", userProfile.company>> ELSE <<>>
  IN  [system |-> <<"cold email system">>,
       prompt |-> <<"Analyze if this is a cold email", profileContext, from, subject, body>>]

\* threadHistory?.length ? the thread block : ''
getContextExtractionPrompt(from, subject, body, threadHistory) ==
  LET threadContext == IF threadHistory # Null /\ Len(threadHistory.list) > 0
                         THEN <<"Thread History", threadHistory.list>> ELSE <<>>
  IN  [system |-> <<"context extraction system">>,
       prompt |-> <<"Extract key context", threadContext, from, subject, body>>]


(***************************************************************************)
(* State                                                                    *)
(***************************************************************************)
VARIABLES
  now,       \* Date.now()
  ttl,       \* LLMCache.ttl
  cache,     \* LLMCache.cache: key -> {data, timestamp}
  usage,     \* TokenTracker.usage
  env,       \* process.env
  mailbox,   \* the mail store behind getEmailData: message id -> email facts
  call,      \* per task: the running call and where it is suspended
  history,   \* the calls that have completed, with their outcomes
  nVendor,   \* vendor requests issued so far (generateObject calls)
  nFetch,    \* external getEmailData calls made so far
  memo,      \* what the vendor answered to each prompt (deterministic vendor)
  det,       \* whether the vendor's output is a function of the prompt
  lastOp,    \* the last direct LLMCache call of a client, with its return value
  shadow     \* per key, the last set(key, .) since the last clear()

vars == <<now, ttl, cache, usage, env, mailbox, call, history, nVendor, nFetch,
          memo, det, lastOp, shadow>>

Tasks == {1, 2}

Ids == {"m1", "m2"}
Senders == {"sales@vendor.com", "amy@corp.com"}

\* The facts of message id: its own subject and snippet, a sender, a body or none
EmailOf(id, from, hasBody) ==
  [from |-> from, subject |-> <<"subject of", id>>, snippet |-> <<"snippet of", id>>,
   body |-> IF hasBody THEN <<"body of", id>> ELSE <<>>]

Mailboxes ==
  {[id \in Ids |-> EmailOf(id, from[id], hasBody[id])] :
     from \in [Ids -> Senders], hasBody \in [Ids -> BOOLEAN]}

\* The shared mutable state a segment of code reads and writes
World == [cache |-> cache, usage |-> usage, nVendor |-> nVendor, nFetch |-> nFetch]

(***************************************************************************)
(* generateStructuredOutput                                                 *)
(***************************************************************************)
\* generateObject of the AI SDK: the vendor's answer validated against the schema
GenerateObject(schema, raw) ==
  IF raw.fail THEN Throw(Error("APICallError", ""))
  ELSE IF ~Conforms(schema, raw.object)
    THEN Throw(Error("NoObjectGeneratedError: response did not match schema", schema))
    ELSE Return([object |-> raw.object, usage |-> raw.usage])

\* catch (error) { console.error(...); throw error; }
gsoCatch(error) == error

\* From the call to the await of generateObject: resolve the tier, pick the adapter,
\* send the request.  f0 is the frame of the calling facade.
\* The tier parameter ignored: every request goes to the default tier
generateStructuredOutput_call_ignoresTier(w, f0, prompt, system, schema, tier, operation) ==
  LET config == getLLMConfig(env)
      f == [f0 EXCEPT !.gso = @ + 1]
  IN  IF ~config.ok
        THEN [w |-> w, f |-> [f EXCEPT !.pc = "threw", !.error = config.error]]
        ELSE
          LET llmConfig == config.value.default
              provider == getProvider(llmConfig)
          IN  IF ~provider.ok
                THEN [w |-> w,
                      f |-> [f EXCEPT !.pc = "threw", !.error = gsoCatch(provider.error)]]
                ELSE [w |-> [w EXCEPT !.nVendor = @ + 1],
                      f |-> [f EXCEPT !.pc = "vendor",
                                      !.req = [provider |-> llmConfig.provider,
                                               model |-> llmConfig.model,
                                               schema |-> schema, prompt |-> prompt,
                                               system |-> system,
                                               operation |-> Or(operation, "structured_output")]]]

generateStructuredOutput_call(w, f0, prompt, system, schema, tier, operation) ==
  LET config == getLLMConfig(env)
      f == [f0 EXCEPT !.gso = @ + 1]
  IN  IF ~config.ok
        THEN [w |-> w, f |-> [f EXCEPT !.pc = "threw", !.error = config.error]]
        ELSE
          LET llmConfig == IF tier = "economy" THEN config.value.economy
                                               ELSE config.value.default
              provider == getProvider(llmConfig)
          IN  IF ~provider.ok
                THEN [w |-> w,
                      f |-> [f EXCEPT !.pc = "threw", !.error = gsoCatch(provider.error)]]
                ELSE [w |-> [w EXCEPT !.nVendor = @ + 1],
                      f |-> [f EXCEPT !.pc = "vendor",
                                      !.req = [provider |-> llmConfig.provider,
                                               model |-> llmConfig.model,
                                               schema |-> schema, prompt |-> prompt,
                                               system |-> system,
                                               operation |-> Or(operation, "structured_output")]]]

\* The usage record is written whether or not the vendor reported token counts
generateStructuredOutput_resume_tracksAlways(w, f, out) ==
  IF ~out.ok
    THEN [w |-> w, f |-> [f EXCEPT !.pc = "threw", !.error = gsoCatch(out.error)]]
    ELSE
      LET result == out.value
          counts == IF result.usage # Null THEN result.usage
                    ELSE [promptTokens |-> 0, completionTokens |-> 0]
          rec == [provider |-> f.req.provider, model |-> f.req.model,
                  inputTokens |-> counts.promptTokens,
                  outputTokens |-> counts.completionTokens,
                  timestamp |-> now, operation |-> f.req.operation]
      IN  [w |-> [w EXCEPT !.usage = TokenTracker_track(@, rec)],
           f |-> [f EXCEPT !.pc = "gsoDone", !.obj = result.object]]

\* A failed request to the vendor is sent again
generateStructuredOutput_resume_retries(w, f, out) ==
  IF ~out.ok
    THEN [w |-> [w EXCEPT !.nVendor = @ + 1], f |-> f]
    ELSE
      LET result == out.value
          rec == [provider |-> f.req.provider, model |-> f.req.model,
                  inputTokens |-> result.usage.promptTokens,
                  outputTokens |-> result.usage.completionTokens,
                  timestamp |-> now, operation |-> f.req.operation]
      IN  [w |-> IF result.usage # Null
                   THEN [w EXCEPT !.usage = TokenTracker_track(@, rec)] ELSE w,
           f |-> [f EXCEPT !.pc = "gsoDone", !.obj = result.object]]

\* A catch block that returns a fallback object instead of rethrowing
generateStructuredOutput_resume_fallback(w, f, out) ==
  IF ~out.ok
    THEN [w |-> w,
          f |-> [f EXCEPT !.pc = "gsoDone",
                   !.obj = [category |-> "UNKNOWN", isColdEmail |-> FALSE,
                            coldEmailType |-> "UNKNOWN", suggestedAction |-> "REVIEW",
                            summary |-> [text |-> "", chars |-> 0], confidence |-> 0,
                            reasoning |-> "fallback"]]]
    ELSE
      LET result == out.value
          rec == [provider |-> f.req.provider, model |-> f.req.model,
                  inputTokens |-> result.usage.promptTokens,
                  outputTokens |-> result.usage.completionTokens,
                  timestamp |-> now, operation |-> f.req.operation]
      IN  [w |-> IF result.usage # Null
                   THEN [w EXCEPT !.usage = TokenTracker_track(@, rec)] ELSE w,
           f |-> [f EXCEPT !.pc = "gsoDone", !.obj = result.object]]

\* From the answer of generateObject to the return: track the usage, return the object
generateStructuredOutput_resume(w, f, out) ==
  IF ~out.ok
    THEN [w |-> w, f |-> [f EXCEPT !.pc = "threw", !.error = gsoCatch(out.error)]]
    ELSE
      LET result == out.value
          rec == [provider |-> f.req.provider, model |-> f.req.model,
                  inputTokens |-> result.usage.promptTokens,
                  outputTokens |-> result.usage.completionTokens,
                  timestamp |-> now, operation |-> f.req.operation]
      IN  [w |-> IF result.usage # Null
                   THEN [w EXCEPT !.usage = TokenTracker_track(@, rec)] ELSE w,
           f |-> [f EXCEPT !.pc = "gsoDone", !.obj = result.object]]

(***************************************************************************)
(* The facades.  A frame f holds the locals of one facade call; f.pc is     *)
(* where it is suspended: fetch, thread, vendor, gsoDone, or it has ended:  *)
(* returned (f.obj) or threw (f.error).  f.internal: getEmailData is the    *)
(* closure the batch passes, which returns the facts it already fetched.    *)
(***************************************************************************)
Frame(op, messageId, extra, internal) ==
  [op |-> op, messageId |-> messageId, extra |-> extra, internal |-> internal,
   pc |-> "start", key |-> <<>>, email |-> Null, req |-> Null, obj |-> Null,
   error |-> Null, gso |-> 0]

\* the call of getEmailData(messageId) and its await
AwaitFetch(w, f) ==
  [w |-> IF f.internal THEN w ELSE [w EXCEPT !.nFetch = @ + 1],
   f |-> [f EXCEPT !.pc = "fetch"]]

\* categorizeEmail fetching the email before anything else, the cache not consulted
categorizeEmail_call_fetchesFirst(w, f0) ==
  AwaitFetch(w, [f0 EXCEPT !.key = <<"categorize:", f0.messageId>>])

categorizeEmail_call(w, f0) ==
  LET cacheKey == <<"categorize:", f0.messageId>>
      f == [f0 EXCEPT !.key = cacheKey]
      cached == LLMCache_get(w.cache, cacheKey, now, ttl)
      w1 == [w EXCEPT !.cache = cached.cache]
  IN  IF cached.ret # Null
        THEN [w |-> w1, f |-> [f EXCEPT !.pc = "returned", !.obj = cached.ret]]
        ELSE AwaitFetch(w1, f)

\* categorizeEmail asking the default tier
categorizeEmail_fetched_defaultTier(w, f, emailData) ==
  LET p == getCategorizationPrompt(emailData.from, emailData.subject,
                                   emailData.snippet, f.extra.categories)
  IN  generateStructuredOutput_call(w, [f EXCEPT !.email = emailData], p.prompt,
        p.system, "CategorizationResultSchema", "default", "categorize_email")

categorizeEmail_fetched(w, f, emailData) ==
  LET p == getCategorizationPrompt(emailData.from, emailData.subject,
                                   emailData.snippet, f.extra.categories)
  IN  generateStructuredOutput_call(w, [f EXCEPT !.email = emailData], p.prompt,
        p.system, "CategorizationResultSchema", "economy", "categorize_email")

\* categorizeEmail returning the result without storing it
categorizeEmail_result_notStored(w, f) == [w |-> w, f |-> [f EXCEPT !.pc = "returned"]]

categorizeEmail_result(w, f) ==
  [w |-> [w EXCEPT !.cache = LLMCache_set(@, f.key, f.obj, now)],
   f |-> [f EXCEPT !.pc = "returned"]]

extractEmailContext_call(w, f) == AwaitFetch(w, f)

extractEmailContext_prompt(w, f, emailData, threadHistory) ==
  LET p == getContextExtractionPrompt(emailData.from, emailData.subject,
                                      emailData.body, threadHistory)
  IN  generateStructuredOutput_call(w, [f EXCEPT !.email = emailData], p.prompt,
        p.system, "ContextExtractionResultSchema", "default", "extract_context")

\* if (params.threadId && getThreadData) threadHistory = await getThreadData(...)
extractEmailContext_fetched(w, f, emailData) ==
  IF f.extra.threadId # "" /\ f.extra.getThreadData
    THEN [w |-> w, f |-> [f EXCEPT !.pc = "thread", !.email = emailData]]
    ELSE extractEmailContext_prompt(w, f, emailData, Null)

extractEmailContext_threaded(w, f, threadHistory) ==
  extractEmailContext_prompt(w, f, f.email, threadHistory)

\* The extracted context stored in the cache under the message id
extractEmailContext_result_cached(w, f) ==
  [w |-> [w EXCEPT !.cache = LLMCache_set(@, <<"context:", f.messageId>>, f.obj, now)],
   f |-> [f EXCEPT !.pc = "returned"]]

extractEmailContext_result(w, f) == [w |-> w, f |-> [f EXCEPT !.pc = "returned"]]

detectColdEmail_call(w, f) == AwaitFetch(w, f)

\* The cold-detection cache keyed by message instead of by sender
detectColdEmail_fetched_keyedById(w, f0, emailData) ==
  LET cacheKey == <<"cold:", f0.messageId>>
      f == [f0 EXCEPT !.key = cacheKey, !.email = emailData]
      cached == LLMCache_get(w.cache, cacheKey, now, ttl)
      w1 == [w EXCEPT !.cache = cached.cache]
      p == getColdEmailPrompt(emailData.from, emailData.subject, emailData.body,
                              f.extra.userProfile)
  IN  IF cached.ret # Null
        THEN [w |-> w1, f |-> [f EXCEPT !.pc = "returned", !.obj = cached.ret]]
        ELSE generateStructuredOutput_call(w1, f, p.prompt, p.system,
               "ColdEmailResultSchema", "economy", "detect_cold_email")

detectColdEmail_fetched(w, f0, emailData) ==
  LET cacheKey == <<"cold:", emailData.from>>
      f == [f0 EXCEPT !.key = cacheKey, !.email = emailData]
      cached == LLMCache_get(w.cache, cacheKey, now, ttl)
      w1 == [w EXCEPT !.cache = cached.cache]
      p == getColdEmailPrompt(emailData.from, emailData.subject, emailData.body,
                              f.extra.userProfile)
  IN  IF cached.ret # Null
        THEN [w |-> w1, f |-> [f EXCEPT !.pc = "returned", !.obj = cached.ret]]
        ELSE generateStructuredOutput_call(w1, f, p.prompt, p.system,
               "ColdEmailResultSchema", "economy", "detect_cold_email")

\* detectColdEmail returning the verdict without storing it
detectColdEmail_result_notStored(w, f) == [w |-> w, f |-> [f EXCEPT !.pc = "returned"]]

detectColdEmail_result(w, f) ==
  [w |-> [w EXCEPT !.cache = LLMCache_set(@, f.key, f.obj, now)],
   f |-> [f EXCEPT !.pc = "returned"]]

\* A facade that catches the rejection and returns a default
Rejected_catchAndDefault(w, f, error) ==
  [w |-> w, f |-> [f EXCEPT !.pc = "returned", !.obj = Null]]

\* A rejected await inside a facade: nothing catches it, the facade rejects with it
Rejected(w, f, error) == [w |-> w, f |-> [f EXCEPT !.pc = "threw", !.error = error]]

Facade_call(w, f) ==
  CASE f.op = "categorize" -> categorizeEmail_call(w, f)
    [] f.op = "context" -> extractEmailContext_call(w, f)
    [] f.op = "cold" -> detectColdEmail_call(w, f)

\* The facade resumes with the outcome r of the promise it awaits
Facade_resume(w, f, r) ==
  CASE f.pc \in {"fetch", "thread"} /\ ~r.ok -> Rejected(w, f, r.error)
    [] f.pc = "fetch" /\ r.ok /\ f.op = "categorize" -> categorizeEmail_fetched(w, f, r.value)
    [] f.pc = "fetch" /\ r.ok /\ f.op = "context" -> extractEmailContext_fetched(w, f, r.value)
    [] f.pc = "fetch" /\ r.ok /\ f.op = "cold" -> detectColdEmail_fetched(w, f, r.value)
    [] f.pc = "thread" /\ r.ok -> extractEmailContext_threaded(w, f, r.value)
    [] f.pc = "vendor" -> generateStructuredOutput_resume(w, f, r)
    [] f.pc = "gsoDone" /\ f.op = "categorize" -> categorizeEmail_result(w, f)
    [] f.pc = "gsoDone" /\ f.op = "context" -> extractEmailContext_result(w, f)
    [] f.pc = "gsoDone" /\ f.op = "cold" -> detectColdEmail_result(w, f)

Ended(f) == f.pc \in {"returned", "threw"}

\* How a facade call settles for its caller: its return value, or the error thrown
Settle(f) == IF f.pc = "threw" THEN Throw(f.error) ELSE Return(f.obj)


(***************************************************************************)
(* batchAnalyzeEmails.  p is params; b holds the locals of the call: i (the *)
(* position in messageIds of the item in hand), emailData, result, results; *)
(* b.pc is where the call is suspended: fetch (getEmailData of item i) or   *)
(* facade (the facade of b.stage, whose frame is f), or done (b.out).       *)
(***************************************************************************)
includes(array, x) == \E i \in 1..Len(array) : array[i] = x

Truthy(string) == string # <<>>

RECURSIVE CountCategories(_, _)
\* categoryCount after results.forEach: [category, count] in order of first insertion
CountCategories(results, counts) ==
  IF results = <<>> THEN counts
  ELSE IF Head(results).category = <<>> THEN CountCategories(Tail(results), counts)
  ELSE
    LET category == Head(results).category[1].category
        at == {j \in 1..Len(counts) : counts[j].category = category}
    IN  IF at = {}
          THEN CountCategories(Tail(results),
                 Append(counts, [line |-> "- category: n", category |-> category,
                                 count |-> 1]))
          ELSE CountCategories(Tail(results),
                 [counts EXCEPT ![CHOOSE j \in at : TRUE].count = @ + 1])

IsCold(r) == r.coldDetection # <<>> /\ r.coldDetection[1].isColdEmail

\* The summary counting as cold only the records that get a recommendation
batch_summary_countsRecommended(results) ==
  LET coldEmailCount ==
        Cardinality({j \in 1..Len(results) :
                       IsCold(results[j])
                         /\ results[j].coldDetection[1].suggestedAction # "ALLOW"})
  IN  <<[line |-> "Analyzed n emails:", count |-> Len(results)]>>
        \o CountCategories(results, <<>>)
        \o (IF coldEmailCount > 0
              THEN <<[line |-> "n cold emails detected", count |-> coldEmailCount]>>
              ELSE <<>>)

\* The summary text, line by line
batch_summary(results) ==
  LET coldEmailCount == Cardinality({j \in 1..Len(results) : IsCold(results[j])})
  IN  <<[line |-> "Analyzed n emails:", count |-> Len(results)]>>
        \o CountCategories(results, <<>>)
        \o (IF coldEmailCount > 0
              THEN <<[line |-> "n cold emails detected", count |-> coldEmailCount]>>
              ELSE <<>>)

\* The recommendation made without the test of the suggested action
Recommends_ignoresAllow(r) == IsCold(r)

Recommends(r) == IsCold(r) /\ r.coldDetection[1].suggestedAction # "ALLOW"

RECURSIVE batch_recommend(_)
batch_recommend(results) ==
  IF results = <<>> THEN <<>>
  ELSE
    LET r == Head(results)
    IN  (IF Recommends(r)
           THEN <<[messageId |-> r.messageId,
                   action |-> r.coldDetection[1].suggestedAction,
                   reasoning |-> <<"Cold", r.coldDetection[1].coldEmailType, "email:",
                                   r.coldDetection[1].reasoning>>]>>
           ELSE <<>>)
        \o batch_recommend(Tail(results))

\* params.options?.generateSummary
GenerateSummary(p) == p.options # Null /\ p.options.generateSummary

\* The summary and the recommendations made whatever the options say
batch_return_summaryAlways(w, p, b) ==
  [w |-> w, f |-> Null,
   b |-> [b EXCEPT !.pc = "done",
            !.out = [results |-> b.results,
                     summary |-> batch_summary(b.results),
                     recommendedActions |-> batch_recommend(b.results)]]]

\* After the loop: the summary and the recommendations, and the return
batch_return(w, p, b) ==
  [w |-> w, f |-> Null,
   b |-> [b EXCEPT !.pc = "done",
            !.out = [results |-> b.results,
                     summary |-> IF GenerateSummary(p) THEN batch_summary(b.results)
                                                       ELSE <<>>,
                     recommendedActions |-> IF GenerateSummary(p)
                                              THEN batch_recommend(b.results) ELSE <<>>]]]

\* The head of a loop that fetches the next item along with the item in hand
batch_item_prefetches(w, p, b, i) ==
  IF i > Len(p.messageIds) THEN batch_return(w, p, [b EXCEPT !.i = i])
  ELSE [w |-> [w EXCEPT !.nFetch = @ + (IF i < Len(p.messageIds) THEN 2 ELSE 1)],
        f |-> Null,
        b |-> [b EXCEPT !.i = i, !.pc = "fetch", !.emailData = Null,
                 !.result = [messageId |-> p.messageIds[i], category |-> <<>>,
                             context |-> <<>>, coldDetection |-> <<>>]]]

\* The head of the loop for item i: past the last item, return; else fetch the item
batch_item(w, p, b, i) ==
  IF i > Len(p.messageIds) THEN batch_return(w, p, [b EXCEPT !.i = i])
  ELSE [w |-> [w EXCEPT !.nFetch = @ + 1], f |-> Null,
        b |-> [b EXCEPT !.i = i, !.pc = "fetch", !.emailData = Null,
                 !.result = [messageId |-> p.messageIds[i], category |-> <<>>,
                             context |-> <<>>, coldDetection |-> <<>>]]]

\* results.push(result), and on to the next item
batch_push(w, p, b) ==
  batch_item(w, p, [b EXCEPT !.results = Append(@, b.result)], b.i + 1)

\* A catch block that keeps the partial record of the item
batch_catch_pushesPartial(w, p, b) == batch_push(w, p, b)

\* A catch block that throws the error on: the batch call ends by raising
batch_catch_rethrows(w, p, b) == [w |-> w, f |-> Null, b |-> [b EXCEPT !.pc = "threw"]]

\* catch (error) { console.error(...) }: on to the next item
batch_catch(w, p, b) == batch_item(w, p, b, b.i + 1)

\* The facade of a stage has been called and r = [w, f] is how far it got at once
batch_await(r, b, stage) ==
  [w |-> r.w, f |-> r.f, b |-> [b EXCEPT !.pc = "facade", !.stage = stage]]

\* the closure the batch passes to extractEmailContext and detectColdEmail
BodyFacts(emailData) ==
  [from |-> emailData.from, subject |-> emailData.subject, body |-> emailData.body]

\* detectColdEmail given the external fetcher instead of the closure over emailData
batch_cold_refetches(w, p, b) ==
  IF includes(p.analysisTypes, "cold_detection") /\ Truthy(b.emailData.body)
    THEN batch_await(detectColdEmail_call(w,
           Frame("cold", b.result.messageId, [userProfile |-> Null], FALSE)), b, "cold")
    ELSE batch_push(w, p, b)

batch_cold(w, p, b) ==
  IF includes(p.analysisTypes, "cold_detection") /\ Truthy(b.emailData.body)
    THEN batch_await(detectColdEmail_call(w,
           Frame("cold", b.result.messageId, [userProfile |-> Null], TRUE)), b, "cold")
    ELSE batch_push(w, p, b)

\* Context extraction requested without the test of the body
batch_context_ignoresBody(w, p, b) ==
  IF includes(p.analysisTypes, "context")
    THEN batch_await(extractEmailContext_call(w,
           Frame("context", b.result.messageId,
                 [threadId |-> "", maxHistoryMessages |-> 10, getThreadData |-> FALSE],
                 TRUE)), b, "context")
    ELSE batch_cold(w, p, b)

batch_context(w, p, b) ==
  IF includes(p.analysisTypes, "context") /\ Truthy(b.emailData.body)
    THEN batch_await(extractEmailContext_call(w,
           Frame("context", b.result.messageId,
                 [threadId |-> "", maxHistoryMessages |-> 10, getThreadData |-> FALSE],
                 TRUE)), b, "context")
    ELSE batch_cold(w, p, b)

\* The facade of b.stage has ended as f: attach its result and go on, or catch
batch_resume(w, p, b, f) ==
  IF f.pc = "threw" THEN batch_catch(w, p, b)
  ELSE CASE b.stage = "categorize" ->
              batch_context(w, p, [b EXCEPT !.result.category = <<f.obj>>])
         [] b.stage = "context" ->
              batch_cold(w, p, [b EXCEPT !.result.context = <<f.obj>>])
         [] b.stage = "cold" ->
              batch_push(w, p, [b EXCEPT !.result.coldDetection = <<f.obj>>])

batch_categorize(w, p, b) ==
  IF includes(p.analysisTypes, "categorize")
    THEN LET r == categorizeEmail_call(w,
                    Frame("categorize", b.result.messageId, [categories |-> Null], TRUE))
             b1 == [b EXCEPT !.stage = "categorize"]
         IN  IF Ended(r.f) THEN batch_resume(r.w, p, b1, r.f)
                           ELSE batch_await(r, b, "categorize")
    ELSE batch_context(w, p, b)

\* getEmailData(messageId) of the item in hand has settled as r
batch_fetched(w, p, b, r) ==
  IF ~r.ok THEN batch_catch(w, p, b)
  ELSE batch_categorize(w, p, [b EXCEPT !.emailData = r.value])

batch_call(w, p) ==
  batch_item(w, p, [i |-> 0, pc |-> "start", stage |-> "", emailData |-> Null,
                    result |-> Null, results |-> <<>>, out |-> Null], 1)

\* What the closure of the running stage returns
ClosureFacts(b) == IF b.stage = "categorize" THEN b.emailData ELSE BodyFacts(b.emailData)

(***************************************************************************)
(* Inputs                                                                   *)
(***************************************************************************)
CategoriesArgs == {Null, [list |-> <<"URGENT", "LATER">>]}
UserProfiles == {Null, [company |-> "Kargo"]}
ContextArgs == {[threadId |-> "", maxHistoryMessages |-> 10, getThreadData |-> FALSE],
                [threadId |-> "t1", maxHistoryMessages |-> 10, getThreadData |-> TRUE]}

TokenCounts == [promptTokens |-> 120, completionTokens |-> 30]

Cat(category, confidence) ==
  [category |-> category, confidence |-> confidence, reasoning |-> "r"]
Cold(isCold, type, confidence, action) ==
  [isColdEmail |-> isCold, coldEmailType |-> type, confidence |-> confidence,
   reasoning |-> "r", suggestedAction |-> action]
Ctx(text, chars, confidence) ==
  [summary |-> [text |-> text, chars |-> chars], keyPoints |-> <<>>, actionItems |-> <<>>,
   people |-> <<>>, dates |-> <<>>, relevantContext |-> "rc", confidence |-> confidence]

\* What a vendor may answer to a request for each schema; some do not conform
RawObjects(schema) ==
  CASE schema = "CategorizationResultSchema" ->
         {Cat("WORK", 92), Cat("COLD_EMAIL", 100), Cat("SPAM", 90), Cat("WORK", 150)}
    [] schema = "ColdEmailResultSchema" ->
         {Cold(TRUE, "SALES", 80, "ARCHIVE"), Cold(FALSE, "LEGITIMATE", 0, "ALLOW"),
          Cold(TRUE, "PARTNERSHIP", 80, "ALLOW"), Cold(TRUE, "SALES", 80, "DELETE")}
    [] schema = "ContextExtractionResultSchema" ->
         {Ctx("s1", 40, 95), Ctx("s2", 500, 70), Ctx("s3", 501, 70), Ctx("s1", 40, -5)}

\* Whether the vendor reports token counts with an answer (some answers carry none)
UsageOf(o) == IF o.confidence >= 90 THEN TokenCounts ELSE Null

VendorAnswers(schema) ==
  {[fail |-> TRUE, object |-> Null, usage |-> Null]}
    \cup {[fail |-> FALSE, object |-> o, usage |-> UsageOf(o)] : o \in RawObjects(schema)}

FetchOutcomes(id) == {Return(mailbox[id]), Throw(Error("message not found", id))}

ThreadOutcomes == {Throw(Error("thread not found", "")), Return([list |-> <<>>]),
                   Return([list |-> <<"earlier message">>])}

\* The configuration of the setup guide
GuideEnv ==
  [LLM_PROVIDER |-> "anthropic", LLM_MODEL |-> "claude-sonnet-4-5",
   ECONOMY_LLM_PROVIDER |-> "anthropic", ECONOMY_LLM_MODEL |-> "claude-haiku-4-5",
   ANTHROPIC_API_KEY |-> "sk-ant-api03", OPENAI_API_KEY |-> "", GOOGLE_AI_API_KEY |-> ""]

\* A configuration with the two tiers at two vendors
TwoVendorEnv ==
  [LLM_PROVIDER |-> "openai", LLM_MODEL |-> "gpt-4o",
   ECONOMY_LLM_PROVIDER |-> "google", ECONOMY_LLM_MODEL |-> "gemini-1.5-flash",
   ANTHROPIC_API_KEY |-> "", OPENAI_API_KEY |-> "sk-proj", GOOGLE_AI_API_KEY |-> "AIza"]

\* The configuration of the guide without its key, and with an unknown vendor
NoKeyEnv == [GuideEnv EXCEPT !.ANTHROPIC_API_KEY = ""]
UnknownVendorEnv == [GuideEnv EXCEPT !.ECONOMY_LLM_PROVIDER = "mistral"]

\* Environments with keys set or unset, and providers named, unnamed or unknown
ConfigEnvs ==
  [LLM_PROVIDER : {"", "openai", "mistral"}, LLM_MODEL : {"", "my-model"},
   ECONOMY_LLM_PROVIDER : {"", "google", "cohere"}, ECONOMY_LLM_MODEL : {""},
   ANTHROPIC_API_KEY : {"", "sk-ant-api03"}, OPENAI_API_KEY : {"", "sk-proj"},
   GOOGLE_AI_API_KEY : {"", "AIza"}]

RECURSIVE ListsUpTo(_, _)
\* The lists over set S of length at most n
ListsUpTo(S, n) ==
  IF n = 0 THEN {<<>>}
  ELSE LET shorter == ListsUpTo(S, n - 1)
       IN  shorter \cup {Append(l, x) : l \in shorter, x \in S}

BatchLists == ListsUpTo(Ids, MaxBatchLen)

AnalysisTypeLists == {<<>>, <<"categorize">>, <<"cold_detection">>,
                      <<"categorize", "context">>,
                      <<"categorize", "context", "cold_detection">>}

BatchOptions == {Null, [generateSummary |-> TRUE], [generateSummary |-> FALSE]}

\* A list longer than the schema of the batch tool allows
OversizeList == [i \in 1..(MaxBatchSize + 1) |-> "m1"]

(***************************************************************************)
(* Tasks                                                                    *)
(***************************************************************************)
Idle == [top |-> "idle"]

NoOp == [op |-> "none", key |-> <<>>, ret |-> Null]

Running == {t \in DOMAIN call : call[t] # Idle}

MayCall(t) == call[t] = Idle /\ Len(history) + Cardinality(Running) < MaxCalls

\* A call just made: what it is (facade or batch, with the batch's params p), and
\* the state it found
NewCall(top, p) ==
  [top |-> top, f |-> Null, p |-> p, b |-> Null, errored |-> <<>>, raised |-> Null,
   raw |-> Null, log |-> <<>>, cache0 |-> cache, t0 |-> now, v0 |-> nVendor,
   n0 |-> nFetch]

\* The external requests a segment issued, as the log of the call records them: the
\* segment left the world as w and the running facade as f (Null: none is running);
\* i is the batch item in hand, 0 outside a batch
Starts(w, i, f) ==
  (IF w.nFetch > nFetch
     THEN <<[ev |-> "start", kind |-> "fetch", i |-> i,
             op |-> IF f = Null THEN "batch" ELSE f.op]>>
     ELSE <<>>)
  \o (IF w.nVendor > nVendor
        THEN <<[ev |-> "start", kind |-> "vendor", i |-> i, op |-> f.op,
                provider |-> f.req.provider, model |-> f.req.model,
                operation |-> f.req.operation]>>
        ELSE <<>>)

\* The external request that settled and so resumed the facade suspended as f
Ends(f, i, ok) ==
  IF f.pc = "vendor" THEN <<[ev |-> "end", kind |-> "vendor", i |-> i, op |-> f.op, ok |-> ok]>>
  ELSE IF f.pc = "fetch" /\ ~f.internal
    THEN <<[ev |-> "end", kind |-> "fetch", i |-> i, op |-> f.op, ok |-> ok]>>
    ELSE <<>>

\* The record of a completed facade call
Completed(c, f, w) ==
  [op |-> f.op, messageId |-> f.messageId, extra |-> f.extra, key |-> f.key,
   email |-> f.email, res |-> Settle(f), raised |-> c.raised, raw |-> c.raw,
   log |-> c.log, gsoCalls |-> f.gso, cache0 |-> c.cache0, cache1 |-> w.cache, t0 |-> c.t0, t1 |-> now,
   vendorCalls |-> w.nVendor - c.v0, fetchCalls |-> w.nFetch - c.n0]

\* The record of a completed batch call.  errored: the positions in messageIds of
\* the items whose fetch or facade raised.
CompletedBatch(c, b, w) ==
  [op |-> "batch", params |-> c.p, res |-> Return(b.out), errored |-> c.errored,
   log |-> c.log, cache0 |-> c.cache0, cache1 |-> w.cache, t0 |-> c.t0, t1 |-> now,
   vendorCalls |-> w.nVendor - c.v0, fetchCalls |-> w.nFetch - c.n0]

Write(w) ==
  /\ cache' = w.cache
  /\ usage' = w.usage
  /\ nVendor' = w.nVendor
  /\ nFetch' = w.nFetch

\* Write back what a segment r = [w, b, f] of batch task t did
BatchCommit(t, c0, r) ==
  LET c == [c0 EXCEPT !.log = @ \o Starts(r.w, r.b.i, r.f)]
  IN  /\ Write(r.w)
      /\ IF r.b.pc = "done"
           THEN /\ history' = Append(history, CompletedBatch(c, r.b, r.w))
                /\ call' = [call EXCEPT ![t] = Idle]
           ELSE /\ history' = history
                /\ call' = [call EXCEPT ![t] = [c EXCEPT !.b = r.b, !.f = r.f]]

\* Write back what a segment r = [w, f] of a facade of task t did.  raised: the
\* error of the promise the facade awaited, when that promise rejected; raw: the
\* vendor's answer, when this segment received one.
Commit(t, r, raised, raw) ==
  LET i == IF call[t].top = "batch" THEN call[t].b.i ELSE 0
      ok == IF call[t].f.pc = "vendor" THEN raised = Null ELSE r.f.email # Null
      c0 == [call[t] EXCEPT !.raised = raised, !.raw = raw,
                            !.log = @ \o Ends(call[t].f, i, ok)]
  IN  IF Ended(r.f) /\ c0.top = "batch"
        THEN BatchCommit(t, [c0 EXCEPT !.errored = IF r.f.pc = "threw"
                                                     THEN Append(@, i) ELSE @],
                         batch_resume(r.w, c0.p, c0.b, r.f))
        ELSE LET c == [c0 EXCEPT !.log = @ \o Starts(r.w, i, r.f)]
             IN  /\ Write(r.w)
                 /\ IF Ended(r.f)
                      THEN /\ history' = Append(history, Completed(c, r.f, r.w))
                           /\ call' = [call EXCEPT ![t] = Idle]
                      ELSE /\ history' = history
                           /\ call' = [call EXCEPT ![t] = [c EXCEPT !.f = r.f]]

\* The error a segment ended with, if it ended with one
ThrownBy(r) == IF r.f.pc = "threw" THEN r.f.error ELSE Null

\* The environment's answers to question q: any of the choices, or the one it gave
\* before when it is deterministic
Answers(q, choices) == IF det /\ q \in DOMAIN memo THEN {memo[q]} ELSE choices

Remember(q, a) ==
  IF det THEN [k \in DOMAIN memo \cup {q} |-> IF k = q THEN a ELSE memo[k]] ELSE memo

CallFacade(t, op, messageId, extra) ==
  /\ MayCall(t)
  /\ LET r == Facade_call(World, Frame(op, messageId, extra, FALSE))
         c == [NewCall("facade", Null) EXCEPT !.log = Starts(r.w, 0, r.f)]
     IN  /\ Write(r.w)
         /\ IF Ended(r.f)
              THEN /\ history' = Append(history, Completed(c, r.f, r.w))
                   /\ call' = call
              ELSE /\ history' = history
                   /\ call' = [call EXCEPT ![t] = [c EXCEPT !.f = r.f]]
  /\ UNCHANGED <<now, ttl, env, mailbox, memo, det, lastOp, shadow>>

CallCategorize(t) ==
  \E id \in Ids, categories \in CategoriesArgs :
     CallFacade(t, "categorize", id, [categories |-> categories])

CallContext(t) ==
  \E id \in Ids, a \in ContextArgs : CallFacade(t, "context", id, a)

CallCold(t) ==
  \E id \in Ids, p \in UserProfiles : CallFacade(t, "cold", id, [userProfile |-> p])

\* The first call of a run
CallFirst(t) ==
  /\ history = <<>>
  /\ (CallCategorize(t) \/ CallContext(t) \/ CallCold(t))

\* The first request of the run, made again
CallAgain(t) ==
  /\ history # <<>>
  /\ CallFacade(t, history[1].op, history[1].messageId, history[1].extra)

\* getEmailData(messageId) of a facade called on its own resolves or rejects
FetchResponds(t) ==
  /\ call[t].top = "facade" /\ call[t].f.pc = "fetch"
  /\ LET q == [fetch |-> call[t].f.messageId]
     IN  \E r \in Answers(q, FetchOutcomes(call[t].f.messageId)) :
           LET s == Facade_resume(World, call[t].f, r)
           IN  /\ memo' = Remember(q, r)
               /\ Commit(t, s, IF r.ok THEN ThrownBy(s) ELSE r.error, Null)
  /\ UNCHANGED <<now, ttl, env, mailbox, det, lastOp, shadow>>

\* getThreadData(threadId, maxMessages) resolves or rejects
ThreadResponds(t) ==
  /\ call[t].top = "facade" /\ call[t].f.pc = "thread"
  /\ LET q == [thread |-> call[t].f.extra.threadId]
     IN  \E r \in Answers(q, ThreadOutcomes) :
           LET s == Facade_resume(World, call[t].f, r)
           IN  /\ memo' = Remember(q, r)
               /\ Commit(t, s, IF r.ok THEN ThrownBy(s) ELSE r.error, Null)
  /\ UNCHANGED <<now, ttl, env, mailbox, det, lastOp, shadow>>

\* What identifies a request to the vendor
Asked(req) == [model |-> req.model, schema |-> req.schema, system |-> req.system,
               prompt |-> req.prompt]

\* The vendor answers the request in flight; generateStructuredOutput resumes
VendorResponds(t) ==
  /\ call[t].top \in {"facade", "batch"} /\ call[t].f # Null /\ call[t].f.pc = "vendor"
  /\ LET q == Asked(call[t].f.req)
     IN  \E raw \in Answers(q, VendorAnswers(call[t].f.req.schema)) :
           LET out == GenerateObject(call[t].f.req.schema, raw)
               s == Facade_resume(World, call[t].f, out)
           IN  /\ memo' = Remember(q, raw)
               /\ Commit(t, s, IF out.ok THEN Null ELSE out.error, raw)
  /\ UNCHANGED <<now, ttl, env, mailbox, det, lastOp, shadow>>

\* The facade resumes after generateStructuredOutput has returned
FacadeResumes(t) ==
  /\ call[t].top \in {"facade", "batch"} /\ call[t].f # Null /\ call[t].f.pc = "gsoDone"
  /\ Commit(t, Facade_resume(World, call[t].f, Null), Null, call[t].raw)
  /\ UNCHANGED <<now, ttl, env, mailbox, memo, det, lastOp, shadow>>

\* batchAnalyzeEmails is called
CallBatchWith(t, ids, types, options) ==
  /\ MayCall(t)
  /\ LET p == [messageIds |-> ids, analysisTypes |-> types, options |-> options]
     IN  BatchCommit(t, NewCall("batch", p), batch_call(World, p))
  /\ UNCHANGED <<now, ttl, env, mailbox, memo, det, lastOp, shadow>>

CallBatch(t) ==
  \E ids \in BatchLists, types \in AnalysisTypeLists, options \in BatchOptions :
     CallBatchWith(t, ids, types, options)

\* The only call of a run
CallBatchOnce(t) == history = <<>> /\ CallBatch(t)

CallOversizeBatch(t) ==
  \E types \in AnalysisTypeLists, options \in BatchOptions :
     CallBatchWith(t, OversizeList, types, options)

\* getEmailData(messageId) of the batch's item in hand resolves or rejects
BatchFetchResponds(t) ==
  /\ call[t].top = "batch" /\ call[t].b.pc = "fetch"
  /\ LET c == call[t]
         id == c.p.messageIds[c.b.i]
         q == [fetch |-> id]
     IN  \E r \in Answers(q, FetchOutcomes(id)) :
           /\ memo' = Remember(q, r)
           /\ BatchCommit(t, [c EXCEPT !.errored = IF r.ok THEN @ ELSE Append(@, c.b.i),
                                        !.log = Append(@, [ev |-> "end", kind |-> "fetch",
                                                           i |-> c.b.i, op |-> "batch",
                                                           ok |-> r.ok])],
                          batch_fetched(World, c.p, c.b, r))
  /\ UNCHANGED <<now, ttl, env, mailbox, det, lastOp, shadow>>

\* The closure the batch passed as getEmailData resolves with the item's facts
ClosureResolves(t) ==
  /\ call[t].top = "batch" /\ call[t].b.pc = "facade" /\ call[t].f.pc = "fetch"
  /\ LET s == Facade_resume(World, call[t].f, Return(ClosureFacts(call[t].b)))
     IN  Commit(t, s, ThrownBy(s), Null)
  /\ UNCHANGED <<now, ttl, env, mailbox, memo, det, lastOp, shadow>>

\* Time passes
Tick ==
  /\ \E t \in Instants : t > now /\ now' = t
  /\ lastOp' = NoOp
  /\ UNCHANGED <<ttl, cache, usage, env, mailbox, call, history, nVendor, nFetch,
                 memo, det, shadow>>

(***************************************************************************)
(* A client calling the exported llmCache directly                          *)
(***************************************************************************)
Keys == {<<"categorize:", "m1">>, <<"cold:", "amy@corp.com">>}
Values == {Cat("WORK", 92), Cold(TRUE, "SALES", 80, "ARCHIVE")}

ClientSet ==
  /\ \E k \in Keys, v \in Values :
       /\ cache' = LLMCache_set(cache, k, v, now)
       /\ shadow' = [x \in DOMAIN shadow \cup {k} |->
                       IF x = k THEN [data |-> v, timestamp |-> now] ELSE shadow[x]]
       /\ lastOp' = [op |-> "set", key |-> k, ret |-> Null]
  /\ UNCHANGED <<now, ttl, usage, env, mailbox, call, history, nVendor, nFetch, memo, det>>

ClientGet ==
  /\ \E k \in Keys :
       LET g == LLMCache_get(cache, k, now, ttl)
       IN  /\ cache' = g.cache
           /\ lastOp' = [op |-> "get", key |-> k, ret |-> g.ret]
  /\ UNCHANGED <<now, ttl, usage, env, mailbox, call, history, nVendor, nFetch, memo,
                 det, shadow>>

ClientHas ==
  /\ \E k \in Keys :
       LET g == LLMCache_has(cache, k, now, ttl)
       IN  /\ cache' = g.cache
           /\ lastOp' = [op |-> "has", key |-> k, ret |-> g.ret]
  /\ UNCHANGED <<now, ttl, usage, env, mailbox, call, history, nVendor, nFetch, memo,
                 det, shadow>>

ClientClear ==
  /\ cache' = LLMCache_clear(cache)
  /\ shadow' = [x \in {} |-> Null]
  /\ lastOp' = [op |-> "clear", key |-> <<>>, ret |-> Null]
  /\ UNCHANGED <<now, ttl, usage, env, mailbox, call, history, nVendor, nFetch, memo, det>>

(***************************************************************************)
(* Specifications                                                           *)
(***************************************************************************)
Empty == [x \in {} |-> Null]

\* Message m1 is from the first sender and has a body; m2 varies
FacadeMailboxes == {mb \in Mailboxes : mb["m1"] = EmailOf("m1", "sales@vendor.com", TRUE)
                                         /\ mb["m2"].body # <<>>}

\* Both messages from one sender, both with a body
OneSender == [id \in Ids |-> EmailOf(id, "sales@vendor.com", TRUE)]

\* The state of a server just started, serving the given tasks
InitState(tasks) ==
  /\ now = 0
  /\ cache = Empty
  /\ usage = <<>>
  /\ call = [t \in tasks |-> Idle]
  /\ history = <<>>
  /\ nVendor = 0
  /\ nFetch = 0
  /\ lastOp = NoOp
  /\ shadow = Empty

\* One task calling the facades one call after the other
Init ==
  /\ InitState({1})
  /\ ttl = TTL
  /\ env = GuideEnv
  /\ mailbox \in FacadeMailboxes
  /\ memo = Empty
  /\ det = FALSE

Next ==
  \E t \in DOMAIN call :
    \/ CallCategorize(t)
    \/ CallContext(t)
    \/ CallCold(t)
    \/ FetchResponds(t)
    \/ ThreadResponds(t)
    \/ VendorResponds(t)
    \/ FacadeResumes(t)
    \/ Tick

Spec == Init /\ [][Next]_vars

\* A client of the cache alone
InitCache ==
  /\ InitState({1})
  /\ ttl = TTL
  /\ env = GuideEnv
  /\ mailbox = OneSender
  /\ memo = Empty
  /\ det = FALSE

NextCache == ClientSet \/ ClientGet \/ ClientHas \/ ClientClear \/ Tick

SpecCache == InitCache /\ [][NextCache]_vars

\* One call of a facade under each configuration of the environment
InitConfig ==
  /\ InitState({1})
  /\ ttl = TTL
  /\ env \in ConfigEnvs
  /\ mailbox = OneSender
  /\ memo = Empty
  /\ det = FALSE

NextConfig ==
  \E t \in DOMAIN call :
    \/ CallFirst(t)
    \/ FetchResponds(t)
    \/ ThreadResponds(t)
    \/ VendorResponds(t)
    \/ FacadeResumes(t)

SpecConfig == InitConfig /\ [][NextConfig]_vars

\* One task calling batchAnalyzeEmails
InitBatch ==
  /\ InitState({1})
  /\ ttl = TTL
  /\ env = GuideEnv
  /\ mailbox \in FacadeMailboxes
  /\ memo = Empty
  /\ det = FALSE

NextBatch ==
  \E t \in DOMAIN call :
    \/ CallBatchOnce(t)
    \/ BatchFetchResponds(t)
    \/ ClosureResolves(t)
    \/ VendorResponds(t)
    \/ FacadeResumes(t)

SpecBatch == InitBatch /\ [][NextBatch]_vars

\* A client of the token tracker: the n-th record it tracks reports n input tokens
UsageRecord(n) ==
  [provider |-> "anthropic", model |-> "claude-haiku-4-5", inputTokens |-> n,
   outputTokens |-> MaxTracked + 1 - n, timestamp |-> now,
   operation |-> IF n % 2 = 0 THEN "categorize_email" ELSE "extract_context"]

ClientTrack ==
  /\ Len(history) < MaxTracked
  /\ LET rec == UsageRecord(Len(history) + 1)
     IN  /\ usage' = TokenTracker_track(usage, rec)
         /\ history' = Append(history, [op |-> "track", rec |-> rec])
  /\ lastOp' = [op |-> "track"]
  /\ UNCHANGED <<now, ttl, cache, env, mailbox, call, nVendor, nFetch, memo, det, shadow>>

\* getUsage() without since
ClientGetUsage ==
  /\ lastOp' = [op |-> "getUsage", ret |-> usage]
  /\ UNCHANGED <<now, ttl, cache, usage, env, mailbox, call, history, nVendor, nFetch,
                 memo, det, shadow>>

InitTracker ==
  /\ InitState({})
  /\ ttl = TTL /\ env = GuideEnv /\ mailbox = OneSender
  /\ memo = Empty /\ det = TRUE

NextTracker == ClientTrack \/ ClientGetUsage

SpecTracker == InitTracker /\ [][NextTracker]_vars

(***************************************************************************)
(* The tracker read through a time window, with the clock running           *)
(***************************************************************************)
\* The tracker holds its first records, or is full
AtTheEnds == Len(history) <= 2 \/ Len(history) >= MaxUsage

\* getUsage(since)
ClientGetUsageSince ==
  /\ AtTheEnds
  /\ \E since \in Instants :
       lastOp' = [op |-> "getUsageSince", since |-> <<since>>,
                  ret |-> TokenTracker_getUsage(usage, <<since>>)]
  /\ UNCHANGED <<now, ttl, cache, usage, env, mailbox, call, history, nVendor, nFetch,
                 memo, det, shadow>>

\* getTotalTokens() and getTotalTokens(since)
ClientGetTotalTokens ==
  /\ AtTheEnds
  /\ \E since \in {<<>>} \cup {<<t>> : t \in Instants} :
       lastOp' = [op |-> "getTotalTokens", since |-> since,
                  ret |-> TokenTracker_getTotalTokens(usage, since)]
  /\ UNCHANGED <<now, ttl, cache, usage, env, mailbox, call, history, nVendor, nFetch,
                 memo, det, shadow>>

\* Time passes
TrackerTick == AtTheEnds /\ Tick

NextWindow ==
  \/ ClientTrack
  \/ ClientGetUsage
  \/ ClientGetUsageSince
  \/ ClientGetTotalTokens
  \/ TrackerTick

SpecWindow == InitTracker /\ [][NextWindow]_vars

(***************************************************************************)
(* batchProcess                                                             *)
(***************************************************************************)
\* const batchSize = params.batchSize || 10; batchSize is <<>> when omitted
batchProcess_batchSize(p) ==
  IF p.batchSize = <<>> \/ p.batchSize[1] = 0 THEN 10 ELSE p.batchSize[1]

\* Array.prototype.slice(start, end) on indices counted from 0: a negative index
\* counts from the end, and both are clamped to the array
Slice(a, start, end) ==
  LET len == Len(a)
      from == IF start < 0 THEN (IF len + start < 0 THEN 0 ELSE len + start)
                           ELSE (IF start > len THEN len ELSE start)
      to == IF end < 0 THEN (IF len + end < 0 THEN 0 ELSE len + end)
                       ELSE (IF end > len THEN len ELSE end)
  IN  IF from >= to THEN <<>> ELSE SubSeq(a, from + 1, to)

\* params.promptBuilder(batch), of the caller
promptBuilder(batch) == [prompt |-> <<"process", batch>>, system |-> ""]

\* The test of the for loop and, if it holds, the body up to the await; b holds
\* the locals i and results, and asked, the batches passed to promptBuilder so far
batchProcess_loop(w, p, b) ==
  IF b.i < Len(p.items)
    THEN LET batch == Slice(p.items, b.i, b.i + batchProcess_batchSize(p))
             built == promptBuilder(batch)
             b1 == [b EXCEPT !.asked = Append(@, batch)]
             r == generateStructuredOutput_call(w, Frame("process", "", Null, FALSE),
                    built.prompt, built.system, p.schema, p.tier, p.operation)
         IN  IF r.f.pc = "threw"
               THEN [w |-> r.w, f |-> Null,
                     b |-> [b1 EXCEPT !.pc = "threw", !.error = r.f.error]]
               ELSE [w |-> r.w, f |-> r.f, b |-> [b1 EXCEPT !.pc = "vendor"]]
    ELSE [w |-> w, f |-> Null, b |-> [b EXCEPT !.pc = "returned"]]

\* From the answer of the vendor: results.push(result); i += batchSize; the loop
batchProcess_resume(w, p, b, f, out) ==
  LET r == generateStructuredOutput_resume(w, f, out)
  IN  IF r.f.pc = "threw"
        THEN [w |-> r.w, f |-> Null, b |-> [b EXCEPT !.pc = "threw", !.error = r.f.error]]
        ELSE batchProcess_loop(r.w, p,
               [b EXCEPT !.results = Append(@, r.f.obj),
                         !.i = @ + batchProcess_batchSize(p)])

\* The items of a caller, and the lists of them that it passes
AllItems == [k \in 1..11 |-> k]
ItemLists == {SubSeq(AllItems, 1, n) : n \in 0..MaxItems}
BatchSizes == {<<>>, <<0>>, <<-1>>, <<1>>, <<2>>}

\* The record of a completed batchProcess call
CompletedProcess(c, b, w) ==
  [op |-> "process", params |-> c.p,
   res |-> IF b.pc = "threw" THEN Throw(b.error) ELSE Return(b.results),
   asked |-> b.asked, t0 |-> c.t0, t1 |-> now, vendorCalls |-> w.nVendor - c.v0]

ProcessCommit(t, c, r) ==
  /\ Write(r.w)
  /\ IF r.b.pc \in {"returned", "threw"}
       THEN /\ history' = Append(history, CompletedProcess(c, r.b, r.w))
            /\ call' = [call EXCEPT ![t] = Idle]
       ELSE /\ history' = history
            /\ call' = [call EXCEPT ![t] = [c EXCEPT !.b = r.b, !.f = r.f]]

\* batchProcess is called once; the list of eleven goes with the default size
CallProcess(t) ==
  /\ call[t] = Idle /\ history = <<>>
  /\ \E items \in ItemLists \cup {AllItems}, batchSize \in BatchSizes :
       /\ Len(items) > MaxItems => batchSize \in {<<>>, <<0>>}
       /\ LET p == [items |-> items, schema |-> "CategorizationResultSchema",
                    tier |-> "", operation |-> "", batchSize |-> batchSize]
              b == [i |-> 0, results |-> <<>>, asked |-> <<>>, pc |-> "start",
                    error |-> Null]
          IN  ProcessCommit(t, NewCall("process", p), batchProcess_loop(World, p, b))
  /\ UNCHANGED <<now, ttl, env, mailbox, memo, det, lastOp, shadow>>

\* The vendor answers the request of the loop; the model follows the loop for
\* MaxRounds rounds
ProcessVendorResponds(t) ==
  /\ call[t].top = "process" /\ call[t].f # Null /\ call[t].f.pc = "vendor"
  /\ Len(call[t].b.asked) <= MaxRounds
  /\ LET q == Asked(call[t].f.req)
     IN  \E raw \in Answers(q, VendorAnswers(call[t].f.req.schema)) :
           LET out == GenerateObject(call[t].f.req.schema, raw)
           IN  /\ memo' = Remember(q, raw)
               /\ ProcessCommit(t, call[t],
                    batchProcess_resume(World, call[t].p, call[t].b, call[t].f, out))
  /\ UNCHANGED <<now, ttl, env, mailbox, det, lastOp, shadow>>

InitProcess ==
  /\ InitState({1})
  /\ ttl = TTL
  /\ env = GuideEnv
  /\ mailbox = OneSender
  /\ memo = Empty
  /\ det = FALSE

NextProcess ==
  \E t \in DOMAIN call :
    \/ CallProcess(t)
    \/ ProcessVendorResponds(t)

\* Each vendor call returns
ProcessResponds == \E t \in DOMAIN call : ProcessVendorResponds(t)

SpecProcess == InitProcess /\ [][NextProcess]_vars /\ WF_vars(ProcessResponds)

\* One call of any of the exported tools
InitOnce == InitBatch

NextOnce ==
  \E t \in DOMAIN call :
    \/ CallFirst(t)
    \/ CallBatchOnce(t)
    \/ FetchResponds(t)
    \/ ThreadResponds(t)
    \/ BatchFetchResponds(t)
    \/ ClosureResolves(t)
    \/ VendorResponds(t)
    \/ FacadeResumes(t)

SpecOnce == InitOnce /\ [][NextOnce]_vars

\* One call of any of the exported tools, under the configuration of the setup
\* guide (one vendor, two models) or with the two tiers at two vendors
InitTiers ==
  /\ InitState({1})
  /\ ttl = TTL
  /\ env \in {GuideEnv, TwoVendorEnv}
  /\ mailbox = OneSender
  /\ memo = Empty
  /\ det = FALSE

SpecTiers == InitTiers /\ [][NextOnce]_vars

\* One batch over a mailbox whose second message has an empty body
EmptyBodied ==
  [id \in Ids |-> EmailOf(id, "sales@vendor.com", id = "m1")]

InitBodies ==
  /\ InitState({1})
  /\ ttl = TTL
  /\ env = GuideEnv
  /\ mailbox = EmptyBodied
  /\ memo = Empty
  /\ det = FALSE

SpecBodies == InitBodies /\ [][NextBatch]_vars

\* The server is started anew: its cache and its tracker are empty again, while the
\* mailbox and the vendor are what they were
Restart ==
  /\ Len(history) = 1 /\ Running = {} /\ lastOp.op # "restart"
  /\ cache' = Empty
  /\ usage' = <<>>
  /\ lastOp' = [op |-> "restart"]
  /\ UNCHANGED <<now, ttl, env, mailbox, call, history, nVendor, nFetch, memo, det, shadow>>

\* The first batch, with generateSummary given
CallBatchWithSummaryOption(t) ==
  /\ history = <<>>
  /\ \E ids \in BatchLists, types \in AnalysisTypeLists, options \in BatchOptions \ {Null} :
       CallBatchWith(t, ids, types, options)

\* The batch of before, called again after the restart with generateSummary negated
CallBatchWithSummaryNegated(t) ==
  /\ Len(history) = 1 /\ lastOp.op = "restart"
  /\ LET p == history[1].params
     IN  CallBatchWith(t, p.messageIds, p.analysisTypes,
                       [generateSummary |-> ~p.options.generateSummary])

\* One batch with the summary and the same batch without it, each on a server just
\* started, against a mailbox and a vendor that answer the same way both times
InitSummary ==
  /\ InitState({1})
  /\ ttl = TTL
  /\ env = GuideEnv
  /\ mailbox = OneSender
  /\ memo = Empty
  /\ det = TRUE

NextSummary ==
  \/ Restart
  \/ \E t \in DOMAIN call :
       \/ CallBatchWithSummaryOption(t)
       \/ CallBatchWithSummaryNegated(t)
       \/ BatchFetchResponds(t)
       \/ ClosureResolves(t)
       \/ VendorResponds(t)
       \/ FacadeResumes(t)

SpecSummary == InitSummary /\ [][NextSummary]_vars

\* One batch under a good and under two bad configurations; every request that
\* is outstanding is answered in the end, and every continuation is run
InitLive ==
  /\ InitState({1})
  /\ ttl = TTL
  /\ env \in {GuideEnv, NoKeyEnv, UnknownVendorEnv}
  /\ mailbox = OneSender
  /\ memo = Empty
  /\ det = FALSE

\* The only call of a run, of a short batch
CallShortBatch(t) ==
  /\ history = <<>>
  /\ \E ids \in ListsUpTo(Ids, MaxLiveLen), types \in AnalysisTypeLists,
        options \in BatchOptions :
       CallBatchWith(t, ids, types, options)

NextLive ==
  \E t \in DOMAIN call :
    \/ CallShortBatch(t)
    \/ BatchFetchResponds(t)
    \/ ClosureResolves(t)
    \/ VendorResponds(t)
    \/ FacadeResumes(t)

Responds ==
  \E t \in DOMAIN call :
    \/ BatchFetchResponds(t)
    \/ ClosureResolves(t)
    \/ VendorResponds(t)
    \/ FacadeResumes(t)

SpecLive == InitLive /\ [][NextLive]_vars /\ WF_vars(Responds)

\* Two tasks of the one event loop: their calls overlap, each step being the code
\* one of them runs between two of its awaits
InitOverlap ==
  /\ InitState({1, 2})
  /\ ttl = TTL
  /\ env = GuideEnv
  /\ mailbox = OneSender
  /\ memo = Empty
  /\ det = FALSE

\* What a caller that passes the message id alone passes to each facade
PlainArgs(op) ==
  CASE op = "categorize" -> [categories |-> Null]
    [] op = "cold" -> [userProfile |-> Null]
    [] op = "context" -> [threadId |-> "", maxHistoryMessages |-> 10,
                          getThreadData |-> FALSE]

\* A facade is called with a message id alone; the second task calls after the first
CallPlain(t) ==
  /\ t = 1 \/ call[1] # Idle \/ history # <<>>
  /\ \E id \in Ids, op \in {"categorize", "context", "cold"} :
       CallFacade(t, op, id, PlainArgs(op))

\* The first task calls a batch of one id, without options
CallOverlappedBatch(t) ==
  /\ t = 1 /\ history = <<>> /\ call[2] = Idle
  /\ \E id \in Ids, types \in AnalysisTypeLists : CallBatchWith(t, <<id>>, types, Null)

NextOverlap ==
  \E t \in DOMAIN call :
    \/ CallPlain(t)
    \/ CallOverlappedBatch(t)
    \/ FetchResponds(t)
    \/ BatchFetchResponds(t)
    \/ ClosureResolves(t)
    \/ VendorResponds(t)
    \/ FacadeResumes(t)

SpecOverlap == InitOverlap /\ [][NextOverlap]_vars

(***************************************************************************)
(* A batch, then a later request for one of its ids, with the clock running *)
(***************************************************************************)
InitPartial ==
  /\ InitState({1})
  /\ ttl = TTL
  /\ env = GuideEnv
  /\ mailbox = OneSender
  /\ memo = Empty
  /\ det = FALSE

\* The first call: a short batch that asks for several analyses of each item,
\* the first of them m1
CallFirstBatch(t) ==
  /\ history = <<>>
  /\ \E ids \in {l \in ListsUpTo(Ids, MaxLiveLen) : l # <<>> /\ l[1] = "m1"},
        types \in {<<"categorize", "context">>,
                   <<"categorize", "context", "cold_detection">>} :
       CallBatchWith(t, ids, types, Null)

\* The later request: categorizeEmail, or a batch of one id that categorizes
CallLater(t) ==
  /\ Len(history) = 1
  /\ \E id \in Ids :
       \/ CallFacade(t, "categorize", id, PlainArgs("categorize"))
       \/ CallBatchWith(t, <<id>>, <<"categorize">>, Null)

\* Time passes between the calls
Wait == Running = {} /\ Tick

NextPartial ==
  \/ \E t \in DOMAIN call :
       \/ CallFirstBatch(t)
       \/ CallLater(t)
       \/ FetchResponds(t)
       \/ BatchFetchResponds(t)
       \/ ClosureResolves(t)
       \/ VendorResponds(t)
       \/ FacadeResumes(t)
  \/ Wait

SpecPartial == InitPartial /\ [][NextPartial]_vars

\* One batch of more message ids than the schema of the tool allows, in a
\* deterministic environment
InitOversize ==
  /\ InitState({1})
  /\ ttl = TTL
  /\ env = GuideEnv
  /\ mailbox = OneSender
  /\ memo = Empty
  /\ det = TRUE

NextOversize ==
  \E t \in DOMAIN call :
    \/ history = <<>> /\ CallOversizeBatch(t)
    \/ BatchFetchResponds(t)
    \/ ClosureResolves(t)
    \/ VendorResponds(t)
    \/ FacadeResumes(t)

SpecOversize == InitOversize /\ [][NextOversize]_vars

\* The request to the vendor that categorizeEmail makes for message id
CategorizeQuestion(id, categories) ==
  LET e == mailbox[id]
      p == getCategorizationPrompt(e.from, e.subject, e.snippet, categories)
  IN  [model |-> getLLMConfig(env).value.economy.model,
       schema |-> "CategorizationResultSchema", system |-> p.system, prompt |-> p.prompt]

\* The request to the vendor that detectColdEmail makes for message id
ColdQuestion(id, userProfile) ==
  LET e == mailbox[id]
      p == getColdEmailPrompt(e.from, e.subject, e.body, userProfile)
  IN  [model |-> getLLMConfig(env).value.economy.model,
       schema |-> "ColdEmailResultSchema", system |-> p.system, prompt |-> p.prompt]

ProbeQuestions == {CategorizeQuestion("m1", c) : c \in CategoriesArgs}
ProbeAnswers == {[fail |-> FALSE, object |-> o, usage |-> UsageOf(o)] :
                   o \in {Cat("WORK", 92), Cat("COLD_EMAIL", 100)}}

\* A vendor whose output is a function of the prompt: what it answers to the two
\* categorization prompts for m1 is fixed from the start, the rest when first asked
InitDet ==
  /\ InitState({1})
  /\ ttl = TTL
  /\ env = GuideEnv
  /\ mailbox = OneSender
  /\ memo \in [ProbeQuestions -> ProbeAnswers]
  /\ det = TRUE

NextDet ==
  \E t \in DOMAIN call :
    \/ CallCategorize(t)
    \/ CallCold(t)
    \/ FetchResponds(t)
    \/ VendorResponds(t)
    \/ FacadeResumes(t)
    \/ Tick

SpecDet == InitDet /\ [][NextDet]_vars

\* A request and its repetitions in a deterministic environment, with the cache
\* enabled and with the cache disabled
InitRepeat ==
  /\ InitState({1})
  /\ ttl \in {0, TTL}
  /\ env = GuideEnv
  /\ mailbox = OneSender
  /\ memo = Empty
  /\ det = TRUE

NextRepeat ==
  \E t \in DOMAIN call :
    \/ CallFirst(t)
    \/ CallAgain(t)
    \/ FetchResponds(t)
    \/ ThreadResponds(t)
    \/ VendorResponds(t)
    \/ FacadeResumes(t)
    \/ Tick

SpecRepeat == InitRepeat /\ [][NextRepeat]_vars


(***************************************************************************)
(* Claims                                                                   *)
(***************************************************************************)
\* The key of the client's last call was set (and not cleared since) at this age
AgeOfLastSet(k) == now - shadow[k].timestamp

\* C3: after set(k, v), a get(k) made before the TTL has elapsed, with no set(k, .)
\* or clear() in between, returns v, whatever was done to other keys meanwhile.
C3_GetWithinTtlReturnsValue ==
  (lastOp.op = "get" /\ lastOp.key \in DOMAIN shadow /\ AgeOfLastSet(lastOp.key) < ttl)
    => lastOp.ret = shadow[lastOp.key].data

\* C3 witness: a get(k) returned v some time after set(k, v), and another key was
\* set after k was.
C3_Witness ==
  /\ lastOp.op = "get" /\ lastOp.key \in DOMAIN shadow
  /\ AgeOfLastSet(lastOp.key) > 0 /\ AgeOfLastSet(lastOp.key) < ttl
  /\ lastOp.ret = shadow[lastOp.key].data
  /\ \E k \in DOMAIN shadow : k # lastOp.key
                               /\ shadow[k].timestamp > shadow[lastOp.key].timestamp

\* C4: once an entry is older than the TTL, get(k) returns absent and the entry is
\* gone from the map; this holds of every later get(k) too, until a new set(k, .).
C4_GetAfterTtlIsAbsentAndEvicts ==
  (lastOp.op = "get" /\ lastOp.key \in DOMAIN shadow /\ AgeOfLastSet(lastOp.key) > ttl)
    => (lastOp.ret = Null /\ lastOp.key \notin DOMAIN cache)

\* C4 witness: a get(k) found the entry older than the TTL and returned absent.
C4_Witness ==
  /\ lastOp.op = "get" /\ lastOp.key \in DOMAIN shadow
  /\ AgeOfLastSet(lastOp.key) > ttl
  /\ lastOp.ret = Null /\ lastOp.key \notin DOMAIN cache

Records == {history[i] : i \in 1..Len(history)}
Batches == {h \in Records : h.op = "batch"}
FacadeCalls == {h \in Records : h.op # "batch"}

RECURSIVE Surviving(_, _, _)
\* The ids of the list from position i on, without those at the errored positions
Surviving(ids, errored, i) ==
  IF i > Len(ids) THEN <<>>
  ELSE (IF \E j \in 1..Len(errored) : errored[j] = i THEN <<>> ELSE <<ids[i]>>)
         \o Surviving(ids, errored, i + 1)

\* C1: whatever the list of ids and whichever items raise (in the fetch or in a
\* requested facade), batchAnalyzeEmails returns, and the message ids of its result
\* records are the input ids without the items that raised, in input order.
C1_BatchDropsExactlyTheErroredItems ==
  \A h \in Batches :
    /\ h.res.ok
    /\ [j \in 1..Len(h.res.value.results) |-> h.res.value.results[j].messageId]
         = Surviving(h.params.messageIds, h.errored, 1)

\* C1 witness: a batch of three items returned two records, for two different
\* messages, the item in the middle having raised after a vendor call.
C1_Witness ==
  \E h \in Batches :
    /\ Len(h.params.messageIds) = 3 /\ h.errored = <<2>> /\ h.vendorCalls > 2
    /\ Len(h.res.value.results) = 2
    /\ h.res.value.results[1].messageId # h.res.value.results[2].messageId

\* C2: a call of batchAnalyzeEmails with more than MaxBatchSize message ids makes no
\* call of getEmailData and no vendor request.
C2_OversizeBatchIsRejected ==
  \A t \in DOMAIN call :
    (call[t].top = "batch" /\ Len(call[t].p.messageIds) > MaxBatchSize)
      => (nFetch = call[t].n0 /\ nVendor = call[t].v0)

\* The two cold-detection calls of C5: one right after the other, for two messages
\* of one sender, both fetched, the second ended less than the TTL after the first
ColdPair(a, b) ==
  /\ a.op = "cold" /\ b.op = "cold"
  /\ a.messageId # b.messageId
  /\ a.email # Null /\ b.email # Null /\ a.email.from = b.email.from
  /\ b.t1 - a.t1 < ttl

\* C5 as stated: for two consecutive detectColdEmail calls for different messages
\* of one sender within the TTL, at most one vendor call is made and the second
\* call returns what the first returned.
C5_SameSenderOneVendorCall ==
  \A i \in 1..(Len(history) - 1) :
    ColdPair(history[i], history[i + 1])
      => /\ history[i].vendorCalls + history[i + 1].vendorCalls <= 1
         /\ history[i + 1].res = history[i].res

\* C5 amended: when the first of the two calls obtained its result from the vendor,
\* the second call makes no vendor call and returns the same result object.
C5_SameSenderServedFromCache ==
  \A i \in 1..(Len(history) - 1) :
    LET a == history[i]
        b == history[i + 1]
    IN  (ColdPair(a, b) /\ a.res.ok /\ a.vendorCalls = 1)
          => (b.vendorCalls = 0 /\ b.res = a.res)

\* C5 witness: such a pair, the second call made at a later time than the first
C5_Witness ==
  /\ Len(history) = 2
  /\ ColdPair(history[1], history[2])
  /\ history[1].res.ok /\ history[1].vendorCalls = 1
  /\ history[2].t0 > history[1].t1
  /\ history[2].extra # history[1].extra
  /\ history[2].res = history[1].res

\* What the same call returns when the cache is empty: the fetch, then the vendor's
\* answer to the request built from the facts and the parameters of the call
Uncached(h) ==
  IF ~memo[[fetch |-> h.messageId]].ok THEN memo[[fetch |-> h.messageId]]
  ELSE LET q == IF h.op = "categorize"
                  THEN CategorizeQuestion(h.messageId, h.extra.categories)
                  ELSE ColdQuestion(h.messageId, h.extra.userProfile)
           out == GenerateObject(q.schema, memo[q])
       IN  IF out.ok THEN Return(out.value.object) ELSE Throw(out.error)

\* The environment has fixed everything the uncached call would ask
Determined(h) ==
  /\ [fetch |-> h.messageId] \in DOMAIN memo
  /\ memo[[fetch |-> h.messageId]].ok =>
       (IF h.op = "categorize"
          THEN CategorizeQuestion(h.messageId, h.extra.categories)
          ELSE ColdQuestion(h.messageId, h.extra.userProfile)) \in DOMAIN memo

\* C6: against a vendor whose output is a function of the prompt, each
\* categorizeEmail and detectColdEmail call returns what the same call returns
\* when the cache is emptied before it.
C6_CacheIsPureOptimization ==
  \A h \in FacadeCalls :
    (h.op \in {"categorize", "cold"} /\ Determined(h)) => h.res = Uncached(h)

\* C7: in a deterministic environment every repetition of the first request returns
\* what the first returned, with the cache enabled and with TTL = 0; a repetition
\* with the cache disabled makes the vendor calls the first request made, and one
\* with the cache enabled, within the TTL of a first request that returned, none.
C7_SameContentWithAndWithoutCache ==
  \A i \in 2..Len(history) :
    LET a == history[1]
        b == history[i]
    IN  /\ b.res = a.res
        /\ (ttl = 0 /\ b.t0 > history[i - 1].t1) => b.vendorCalls = a.vendorCalls
        /\ (ttl # 0 /\ b.t1 - a.t1 < ttl /\ a.res.ok /\ a.op \in {"categorize", "cold"})
             => b.vendorCalls = 0

\* C7 witness: with the cache disabled, a repeated request asked the vendor again
\* and returned the same result as the first.
C7_Witness ==
  /\ ttl = 0 /\ Len(history) = 2
  /\ history[1].op \in {"categorize", "cold"}
  /\ history[1].res.ok /\ history[2].res = history[1].res
  /\ history[1].vendorCalls = 1 /\ history[2].vendorCalls = 1

SchemaOf(op) ==
  CASE op = "categorize" -> "CategorizationResultSchema"
    [] op = "cold" -> "ColdEmailResultSchema"
    [] op = "context" -> "ContextExtractionResultSchema"

\* The schema of the values stored under a cache key
SchemaOfKey(key) ==
  IF key[1] = "categorize:" THEN "CategorizationResultSchema" ELSE "ColdEmailResultSchema"

SchemaValidationError(e) ==
  e.message = "NoObjectGeneratedError: response did not match schema"

\* The vendor answered call h with an object that does not conform to the schema
NonConforming(h) ==
  h.raw # Null /\ ~h.raw.fail /\ ~Conforms(SchemaOf(h.op), h.raw.object)

\* C8: every value generateStructuredOutput returns, and so every value a facade
\* returns or caches, conforms to the schema of the call and is the vendor's object
\* as it came; a vendor response that does not conform makes the call fail with the
\* schema validation error.
C8_OnlyConformingValuesReturned ==
  /\ \A t \in DOMAIN call :
       (call[t] # Idle /\ call[t].f.pc = "gsoDone")
         => /\ Conforms(call[t].f.req.schema, call[t].f.obj)
            /\ call[t].f.obj = call[t].raw.object
  /\ \A h \in FacadeCalls :
       /\ h.res.ok => Conforms(SchemaOf(h.op), h.res.value)
       /\ (h.res.ok /\ h.raw # Null) => h.res.value = h.raw.object
       /\ NonConforming(h) => (~h.res.ok /\ SchemaValidationError(h.res.error))
  /\ \A k \in DOMAIN cache : Conforms(SchemaOfKey(k), cache[k].data)

\* C8 witness: the vendor answered with an out-of-enumeration value; the call
\* failed with the schema validation error and left nothing under its key.
C8_Witness ==
  \E h \in FacadeCalls :
    /\ NonConforming(h) /\ h.op = "categorize" /\ h.raw.object.category = "SPAM"
    /\ ~h.res.ok /\ SchemaValidationError(h.res.error)
    /\ h.key \notin DOMAIN h.cache1

\* C9 as stated: the error of the fetch or of generateStructuredOutput reaches the
\* caller unchanged, and a facade call that ends in an error leaves the cache
\* exactly as it was before the call.
C9_ErrorLeavesCacheUntouched ==
  \A h \in FacadeCalls :
    /\ h.raised # Null => (~h.res.ok /\ h.res.error = h.raised)
    /\ ~h.res.ok => h.cache1 = h.cache0

\* The cache c without the entry under key
Without(c, key) == [k \in DOMAIN c \ {key} |-> c[k]]

\* C9 amended: the error reaches the caller unchanged, and a facade call that ends
\* in an error stores nothing; the one change it can make to the cache is that its
\* own lookup evicted the entry under its key, which had expired.
C9_ErrorPropagatesAndStoresNothing ==
  \A h \in FacadeCalls :
    /\ h.raised # Null => (~h.res.ok /\ h.res.error = h.raised)
    /\ ~h.res.ok =>
         \/ h.cache1 = h.cache0
         \/ /\ h.key \in DOMAIN h.cache0
            /\ h.t1 - h.cache0[h.key].timestamp > ttl
            /\ h.cache1 = Without(h.cache0, h.key)

\* C9 witness: a call whose vendor request failed raised that error to its caller,
\* after its lookup had evicted the expired entry under its key.
C9_Witness ==
  \E h \in FacadeCalls :
    /\ ~h.res.ok /\ h.vendorCalls = 1 /\ h.raised = h.res.error
    /\ h.key \in DOMAIN h.cache0
    /\ h.cache1 = Without(h.cache0, h.key)

KnownVendors == {"anthropic", "openai", "google"}

\* The vendors the environment selects for the two tiers
DefaultVendor(e) == IF e.LLM_PROVIDER = "" THEN "anthropic" ELSE e.LLM_PROVIDER
EconomyVendor(e) ==
  IF e.ECONOMY_LLM_PROVIDER = "" THEN DefaultVendor(e) ELSE e.ECONOMY_LLM_PROVIDER

KeyVariable(e, vendor) ==
  CASE vendor = "anthropic" -> e.ANTHROPIC_API_KEY
    [] vendor = "openai" -> e.OPENAI_API_KEY
    [] vendor = "google" -> e.GOOGLE_AI_API_KEY

\* The vendor selected for either tier has no API key
MissingKey(e) ==
  \E v \in {DefaultVendor(e), EconomyVendor(e)} \cap KnownVendors : KeyVariable(e, v) = ""

ConfigurationError(e) ==
  e.message \in {"ANTHROPIC_API_KEY environment variable is required for Anthropic provider",
                 "OPENAI_API_KEY environment variable is required for OpenAI provider",
                 "GOOGLE_AI_API_KEY environment variable is required for Google provider",
                 "Unknown provider: "}

FetchError(e) == e.message \in {"message not found", "thread not found"}

\* C10: when the vendor of either tier has no API key, getLLMConfig fails with a
\* configuration error, no vendor request is ever issued, no usage record is ever
\* appended, and every facade call fails: with the configuration error unless its
\* fetch failed before it reached generateStructuredOutput.
C10_MissingKeyFailsBeforeAnyVendorRequest ==
  MissingKey(env) =>
    /\ ~getLLMConfig(env).ok /\ ConfigurationError(getLLMConfig(env).error)
    /\ nVendor = 0 /\ usage = <<>>
    /\ \A t \in DOMAIN call : call[t] # Idle => call[t].f.pc \in {"fetch", "thread"}
    /\ \A h \in FacadeCalls :
         /\ ~h.res.ok
         /\ ConfigurationError(h.res.error) \/ (FetchError(h.res.error) /\ h.raised # Null)

\* C10 witness: only the economy vendor lacks its key, and a call that asks for the
\* default tier failed with the configuration error after its fetch succeeded.
C10_Witness ==
  /\ DefaultVendor(env) \in KnownVendors /\ KeyVariable(env, DefaultVendor(env)) # ""
  /\ EconomyVendor(env) \in KnownVendors /\ KeyVariable(env, EconomyVendor(env)) = ""
  /\ \E h \in FacadeCalls :
       /\ h.op = "context" /\ h.email # Null /\ h.fetchCalls = 1
       /\ ~h.res.ok /\ ConfigurationError(h.res.error)

\* The vendor named for either tier is not one of the supported vendors
UnsupportedVendor(e) == {DefaultVendor(e), EconomyVendor(e)} \ KnownVendors # {}

KeyRequiredError(e) == ConfigurationError(e) /\ e.message # "Unknown provider: "

\* C11 as stated: with an unsupported vendor name, every facade call that gets past
\* its fetch fails with the error of the adapter selection (getProvider), and no
\* vendor request is issued.
C11_UnsupportedVendorFailsInGetProvider ==
  UnsupportedVendor(env) =>
    /\ nVendor = 0
    /\ \A h \in FacadeCalls :
         /\ ~h.res.ok
         /\ h.res.error.message = "Unsupported provider: " \/ FetchError(h.res.error)

\* The unsupported name that getLLMConfig meets first, if the lookup gets to one
FirstUnknown(e) ==
  IF DefaultVendor(e) \notin KnownVendors THEN DefaultVendor(e)
  ELSE IF KeyVariable(e, DefaultVendor(e)) # "" THEN EconomyVendor(e)
  ELSE ""

\* C11 amended: with an unsupported vendor name no vendor request is issued and
\* every facade call fails; one that gets past its fetch fails with the error of
\* getLLMConfig, never with that of getProvider: "Unknown provider" naming the
\* vendor, raised by the key lookup, which differs from the errors of a missing
\* key; only when the default vendor is supported and lacks its key does the
\* missing-key error come first.
C11_UnsupportedVendorFailsInKeyLookup ==
  UnsupportedVendor(env) =>
    /\ nVendor = 0 /\ usage = <<>>
    /\ ~getLLMConfig(env).ok
    /\ IF FirstUnknown(env) # ""
         THEN /\ getLLMConfig(env).error = Error("Unknown provider: ", FirstUnknown(env))
              /\ ~KeyRequiredError(getLLMConfig(env).error)
         ELSE KeyRequiredError(getLLMConfig(env).error)
    /\ \A h \in FacadeCalls :
         /\ ~h.res.ok
         /\ h.res.error = getLLMConfig(env).error
              \/ (FetchError(h.res.error) /\ h.raised # Null)

\* C11 witness: the economy vendor is unsupported, the default vendor is supported
\* and has its key; a default-tier call failed, after its fetch, with the error
\* that names the economy vendor.
C11_Witness ==
  /\ DefaultVendor(env) \in KnownVendors /\ KeyVariable(env, DefaultVendor(env)) # ""
  /\ EconomyVendor(env) \notin KnownVendors
  /\ \E h \in FacadeCalls :
       /\ h.op = "context" /\ h.email # Null /\ h.fetchCalls = 1
       /\ h.res = Throw(Error("Unknown provider: ", EconomyVendor(env)))

IsStart(e, kind) == e.ev = "start" /\ e.kind = kind
IsEnd(e, kind) == e.ev = "end" /\ e.kind = kind

\* In a log of requests: no facade call (item i, facade op) sent two requests to
\* the vendor, and after a request to the vendor failed nothing more was requested
\* for its item
NoRetry(log) ==
  /\ \A j, k \in 1..Len(log) :
       (IsStart(log[j], "vendor") /\ IsStart(log[k], "vendor")
          /\ log[j].i = log[k].i /\ log[j].op = log[k].op) => j = k
  /\ \A j, k \in 1..Len(log) :
       (IsEnd(log[j], "vendor") /\ ~log[j].ok /\ j < k) => log[k].i # log[j].i

FailedVendorItems(log) ==
  {log[j].i : j \in {k \in 1..Len(log) : IsEnd(log[k], "vendor") /\ ~log[k].ok}}

\* C12: no facade call calls generateStructuredOutput twice, no call of it sends
\* two requests to the vendor, and a failed request is the end of the call: the
\* facade raises that error, and in a batch the item is dropped and nothing more is
\* requested for it.
C12_NoRetry ==
  /\ \A t \in DOMAIN call :
       call[t] # Idle => /\ NoRetry(call[t].log)
                         /\ call[t].f # Null => call[t].f.gso <= 1
  /\ \A h \in Records : NoRetry(h.log)
  /\ \A h \in FacadeCalls :
       /\ h.gsoCalls <= 1 /\ h.vendorCalls <= h.gsoCalls
       /\ FailedVendorItems(h.log) # {} => (~h.res.ok /\ h.res.error = h.raised)
  /\ \A h \in Batches :
       \A i \in FailedVendorItems(h.log) :
          /\ \E j \in 1..Len(h.errored) : h.errored[j] = i
          /\ Len(h.res.value.results) <= Len(h.params.messageIds) - Len(h.errored)

\* C12 witness: in a batch of two items the vendor failed on the second facade of
\* the first item; the item was dropped, no third facade was called for it, and
\* the second item went through its three facades.
C12_Witness ==
  \E h \in Batches :
    /\ Len(h.params.messageIds) = 2 /\ Len(h.params.analysisTypes) = 3
    /\ h.errored = <<1>> /\ Len(h.res.value.results) = 1
    /\ \E j \in 1..Len(h.log) : IsEnd(h.log[j], "vendor") /\ h.log[j].i = 1
                                 /\ h.log[j].op = "context" /\ ~h.log[j].ok
    /\ Cardinality({j \in 1..Len(h.log) : IsStart(h.log[j], "vendor") /\ h.log[j].i = 1}) = 2
    /\ Cardinality({j \in 1..Len(h.log) : IsStart(h.log[j], "vendor") /\ h.log[j].i = 2}) = 3

\* The tier and the operation label each facade passes to generateStructuredOutput
TierOf(op) == IF op = "context" THEN "default" ELSE "economy"
LabelOf(op) ==
  CASE op = "categorize" -> "categorize_email"
    [] op = "context" -> "extract_context"
    [] op = "cold" -> "detect_cold_email"

\* Task t is waiting for the vendor and this step delivers the vendor's outcome
VendorOutcomeStep(t) ==
  /\ call[t] # Idle /\ call[t].f # Null /\ call[t].f.pc = "vendor"
  /\ call'[t] # call[t]

\* After the step generateStructuredOutput of task t has returned
GsoReturned(t) == call'[t] # Idle /\ call'[t].f # Null /\ call'[t].f.pc = "gsoDone"

\* C13: a generateStructuredOutput call that succeeds with token counts appends
\* exactly one usage record (resolved vendor and model, the token counts, the
\* caller's operation label); one that succeeds without token counts appends none
\* and returns the vendor's object; one that fails appends none.
C13_UsageRecordedOnlyOnSuccessWithCounts ==
  [][\A t \in DOMAIN call :
       VendorOutcomeStep(t) =>
         IF GsoReturned(t)
           THEN LET raw == call'[t].raw
                    f == call[t].f
                    tier == getLLMConfig(env).value[TierOf(f.op)]
                IN  /\ call'[t].f.obj = raw.object
                    /\ IF raw.usage # Null
                         THEN usage' = Append(usage,
                                [provider |-> tier.provider, model |-> tier.model,
                                 inputTokens |-> raw.usage.promptTokens,
                                 outputTokens |-> raw.usage.completionTokens,
                                 timestamp |-> now, operation |-> LabelOf(f.op)])
                         ELSE usage' = usage
           ELSE usage' = usage]_vars

\* C13 witness: in a batch one request failed at the vendor, the cold detection of
\* the first record succeeded without token counts and its categorization with
\* token counts: the tracker holds one record, that of the categorization.
C13_Witness ==
  /\ \E h \in Batches :
       /\ \E j \in 1..Len(h.log) : IsEnd(h.log[j], "vendor") /\ ~h.log[j].ok
       /\ \E j \in 1..Len(h.log) : IsEnd(h.log[j], "vendor") /\ h.log[j].ok
       /\ Len(usage) = 1 /\ usage[1].operation = "categorize_email"
       /\ h.res.value.results # <<>>
       /\ h.res.value.results[1].category # <<>>
       /\ h.res.value.results[1].coldDetection # <<>>

\* The records tracked so far, oldest first
Tracked == [k \in 1..Len(history) |-> history[k].rec]

\* The last n elements of a sequence
LastOf(q, n) == IF Len(q) <= n THEN q ELSE SubSeq(q, Len(q) - n + 1, Len(q))

\* C14: after any sequence of track calls the tracker holds at most 1000 records,
\* and they are the most recently tracked ones in the order they were tracked.
C14_TrackerKeepsTheLast1000 ==
  /\ Len(usage) <= MaxUsage
  /\ usage = LastOf(Tracked, MaxUsage)
  /\ lastOp.op = "getUsage" => lastOp.ret = usage

\* C14 witness: more than 1001 records were tracked; the tracker holds 1000 and
\* its oldest is the one tracked 1000 calls ago.
C14_Witness ==
  /\ Len(history) > MaxUsage + 1
  /\ Len(usage) = MaxUsage
  /\ usage[1].inputTokens = Len(history) - MaxUsage + 1
  /\ usage[MaxUsage] = history[Len(history)].rec

ContextCalls == {h \in FacadeCalls : h.op = "context"}

\* The call asked for the thread history and the thread fetch was rejected
ThreadFetchRejected(h) ==
  /\ h.extra.threadId # "" /\ h.extra.getThreadData
  /\ h.raised \in {o.error : o \in {r \in ThreadOutcomes : ~r.ok}}

\* C15 as stated: every extractEmailContext call that got past the email fetch
\* called generateStructuredOutput exactly once and left the cache as it was.
C15_ContextPastFetchCallsGsoOnce ==
  \A h \in ContextCalls :
    h.email # Null => (h.gsoCalls = 1 /\ h.cache1 = h.cache0)

\* C15 amended: every extractEmailContext call leaves the cache as it was; a call
\* that got past the email fetch and, when it asked for the thread history, past
\* the thread fetch called generateStructuredOutput exactly once; a call whose
\* thread fetch was rejected raised that error and called it not at all.
C15_ContextBypassesCache ==
  \A h \in ContextCalls :
    /\ h.cache1 = h.cache0
    /\ (h.email # Null /\ ~ThreadFetchRejected(h)) => h.gsoCalls = 1
    /\ ThreadFetchRejected(h) => (h.gsoCalls = 0 /\ ~h.res.ok /\ h.res.error = h.raised)
    /\ h.email = Null => h.gsoCalls = 0

\* C15 witness: the same message was analysed by categorizeEmail, whose result is
\* in the cache, and then by extractEmailContext, which took the thread history,
\* called generateStructuredOutput once and returned.
C15_Witness ==
  \E i, j \in 1..Len(history) :
    /\ i < j
    /\ history[i].op = "categorize" /\ history[j].op = "context"
    /\ history[i].messageId = history[j].messageId
    /\ <<"categorize:", history[j].messageId>> \in DOMAIN history[j].cache0
    /\ history[j].extra.threadId # "" /\ history[j].extra.getThreadData
    /\ history[j].gsoCalls = 1 /\ history[j].vendorCalls = 1 /\ history[j].res.ok
    /\ history[j].cache1 = history[j].cache0

\* The requests to the vendor that the calls running and completed have sent
VendorRequests ==
  UNION {{h.log[j] : j \in {k \in 1..Len(h.log) : IsStart(h.log[k], "vendor")}}
           : h \in Records \cup {call[t] : t \in {u \in DOMAIN call : call[u] # Idle}}}

\* C16: every request to the vendor sent for categorizeEmail or detectColdEmail
\* names the vendor and model of the economy tier, every request sent for
\* extractEmailContext those of the default tier, from a batch as from a direct call.
C16_TierPerFacade ==
  \A e \in VendorRequests :
    LET config == getLLMConfig(env).value
        tier == IF e.op \in {"categorize", "cold"} THEN config.economy ELSE config.default
    IN  e.provider = tier.provider /\ e.model = tier.model

\* C16 witness: with the tiers at two vendors a batch sent requests for all three
\* facades of one item; the context request went to the vendor of the default
\* tier, the other two to the vendor of the economy tier.
C16_Witness ==
  \E h \in Batches :
    \E a, b, c \in 1..Len(h.log) :
      /\ IsStart(h.log[a], "vendor") /\ h.log[a].op = "categorize"
      /\ IsStart(h.log[b], "vendor") /\ h.log[b].op = "context"
      /\ IsStart(h.log[c], "vendor") /\ h.log[c].op = "cold"
      /\ h.log[a].i = h.log[b].i /\ h.log[b].i = h.log[c].i
      /\ h.log[a].provider = "google" /\ h.log[c].provider = "google"
      /\ h.log[b].provider = "openai" /\ h.log[b].model = "gpt-4o"

StartsOf(log, kind) == {k \in 1..Len(log) : IsStart(log[k], kind)}

\* In the log of a batch every request is followed at once by its own end, before
\* any other request starts; the item numbers never go back; and the j-th fetch
\* is that of the j-th message id
OneAtATimeInOrder(log) ==
  /\ \A k \in 1..Len(log) :
       IF k % 2 = 1
         THEN log[k].ev = "start"
         ELSE /\ log[k].ev = "end" /\ log[k].kind = log[k - 1].kind
              /\ log[k].i = log[k - 1].i /\ log[k].op = log[k - 1].op
  /\ \A j, k \in 1..Len(log) : j < k => log[j].i <= log[k].i
  /\ \A k \in StartsOf(log, "fetch") :
       log[k].i = Cardinality({j \in StartsOf(log, "fetch") : j <= k})

\* C17: a batch processes its message ids in input order and one at a time: every
\* fetch and vendor request of an item has ended before the next request starts,
\* no request of item i + 1 starts before the last request of item i has ended, and
\* the log holds every request the batch has issued.
C17_BatchIsSequential ==
  /\ \A t \in DOMAIN call :
       (call[t] # Idle /\ call[t].top = "batch") =>
         /\ OneAtATimeInOrder(call[t].log)
         /\ Cardinality(StartsOf(call[t].log, "fetch")) = nFetch - call[t].n0
         /\ Cardinality(StartsOf(call[t].log, "vendor")) = nVendor - call[t].v0
  /\ \A h \in Batches :
       /\ OneAtATimeInOrder(h.log)
       /\ Len(h.log) % 2 = 0
       /\ Cardinality(StartsOf(h.log, "fetch")) = h.fetchCalls
       /\ Cardinality(StartsOf(h.log, "vendor")) = h.vendorCalls

\* C17 witness: a batch of three ids ended after two vendor requests for the first
\* item, none for the second (its fetch failed) and one or more for the third.
C17_Witness ==
  \E h \in Batches :
    /\ Len(h.params.messageIds) = 3
    /\ Cardinality({k \in StartsOf(h.log, "vendor") : h.log[k].i = 1}) = 2
    /\ \E k \in 1..Len(h.log) : IsEnd(h.log[k], "fetch") /\ h.log[k].i = 2 /\ ~h.log[k].ok
    /\ \E k \in StartsOf(h.log, "vendor") : h.log[k].i = 3

\* C18: a batch calls the external fetch once for each entry of messageIds, in
\* whatever analysis types were requested and whether or not a facade was served
\* from the cache; the facades it calls get the fetched facts from the batch and
\* call the external fetch not at all.
C18_OneFetchPerEntry ==
  /\ \A t \in DOMAIN call :
       (call[t] # Idle /\ call[t].top = "batch") =>
         /\ nFetch - call[t].n0 = (IF call[t].b.i > Len(call[t].p.messageIds)
                                     THEN Len(call[t].p.messageIds) ELSE call[t].b.i)
         /\ (call[t].f # Null /\ call[t].f.email # Null) =>
              BodyFacts(call[t].f.email) = BodyFacts(call[t].b.emailData)
  /\ \A h \in Batches :
       /\ h.fetchCalls = Len(h.params.messageIds)
       /\ \A i \in 1..Len(h.params.messageIds) :
            Cardinality({k \in StartsOf(h.log, "fetch") : h.log[k].i = i}) = 1
       /\ \A k \in StartsOf(h.log, "fetch") : h.log[k].op = "batch"

\* C18 witness: a batch of the same id twice with the three analyses: the second
\* categorization was served from the cache (no vendor request for it), and the
\* external fetch was called twice.
C18_Witness ==
  \E h \in Batches :
    /\ Len(h.params.messageIds) = 2
    /\ h.params.messageIds[1] = h.params.messageIds[2]
    /\ Len(h.params.analysisTypes) = 3
    /\ Len(h.res.value.results) = 2
    /\ h.res.value.results[2].category # <<>>
    /\ h.res.value.results[2].coldDetection # <<>>
    /\ ~\E k \in StartsOf(h.log, "vendor") : h.log[k].i = 2 /\ h.log[k].op = "categorize"
    /\ h.fetchCalls = 2

HasBody(id) == mailbox[id].body # <<>>

\* C19: in the result of a batch every record has a category iff categorize was
\* requested, a context iff context was requested and the body of the message is
\* not empty, a coldDetection iff cold_detection was requested and the body is not
\* empty; and a message with an empty body has its record unless the item raised.
C19_FieldsFollowRequestAndBody ==
  \A h \in Batches :
    LET results == h.res.value.results
        types == h.params.analysisTypes
        Requested(x) == \E k \in 1..Len(types) : types[k] = x
    IN  /\ \A j \in 1..Len(results) :
             LET r == results[j]
             IN  /\ (r.category # <<>>) <=> Requested("categorize")
                 /\ (r.context # <<>>) <=> (Requested("context") /\ HasBody(r.messageId))
                 /\ (r.coldDetection # <<>>) <=>
                      (Requested("cold_detection") /\ HasBody(r.messageId))
        /\ [j \in 1..Len(results) |-> results[j].messageId]
             = Surviving(h.params.messageIds, h.errored, 1)

\* C19 witness: a batch of a message with a body and one without, the three
\* analyses requested, nothing raised: the first record has the three fields, the
\* second is present with its category alone.
C19_Witness ==
  \E h \in Batches :
    /\ h.params.messageIds = <<"m1", "m2">> /\ Len(h.params.analysisTypes) = 3
    /\ ~HasBody("m2") /\ HasBody("m1")
    /\ h.errored = <<>> /\ Len(h.res.value.results) = 2
    /\ h.res.value.results[1].context # <<>>
    /\ h.res.value.results[1].coldDetection # <<>>
    /\ h.res.value.results[2].messageId = "m2"
    /\ h.res.value.results[2].category # <<>>
    /\ h.res.value.results[2].context = <<>>
    /\ h.res.value.results[2].coldDetection = <<>>

\* The positions of the records that are cold emails with an action other than ALLOW
ToAct(results) ==
  {j \in 1..Len(results) :
     /\ results[j].coldDetection # <<>>
     /\ results[j].coldDetection[1].isColdEmail = TRUE
     /\ results[j].coldDetection[1].suggestedAction # "ALLOW"}

\* The k-th smallest element of a set of numbers
Kth(S, k) == CHOOSE j \in S : Cardinality({x \in S : x < j}) = k - 1

\* C20: with generateSummary enabled, recommendedActions has one entry for each
\* record that is a cold email with a suggested action other than ALLOW and no
\* other entry, in the order of the records, each with the message id and the
\* suggested action of its record; an item that raised has no record and so no entry.
C20_RecommendedActionsFollowResults ==
  \A h \in Batches :
    (h.params.options # Null /\ h.params.options.generateSummary = TRUE) =>
      LET results == h.res.value.results
          acts == h.res.value.recommendedActions
      IN  /\ Len(acts) = Cardinality(ToAct(results))
          /\ \A k \in 1..Len(acts) :
               LET r == results[Kth(ToAct(results), k)]
               IN  /\ acts[k].messageId = r.messageId
                   /\ acts[k].action = r.coldDetection[1].suggestedAction
          /\ \A k \in 1..Len(acts) :
               \E i \in 1..Len(h.params.messageIds) :
                 /\ h.params.messageIds[i] = acts[k].messageId
                 /\ ~\E j \in 1..Len(h.errored) : h.errored[j] = i

\* C20 witness: a batch with generateSummary of three items: the first raised, the
\* second is a cold email to be allowed, the third a cold email to be archived; the
\* one recommendation is for the third.
C20_Witness ==
  \E h \in Batches :
    /\ h.params.options # Null /\ h.params.options.generateSummary = TRUE
    /\ Len(h.params.messageIds) = 3 /\ h.errored = <<1>>
    /\ Len(h.res.value.results) = 2
    /\ IsCold(h.res.value.results[1])
    /\ h.res.value.results[1].coldDetection[1].suggestedAction = "ALLOW"
    /\ IsCold(h.res.value.results[2])
    /\ h.res.value.results[2].coldDetection[1].suggestedAction = "ARCHIVE"
    /\ Len(h.res.value.recommendedActions) = 1
    /\ h.res.value.recommendedActions[1].messageId = h.params.messageIds[3]
    /\ h.params.messageIds[3] # h.params.messageIds[2]

\* C21: a batch called without the options object returns a summary that is not
\* empty and one recommended action for each record that is a cold email with an
\* action other than ALLOW, as a batch called with generateSummary = true does.
C21_SummaryByDefault ==
  \A h \in Batches :
    h.params.options = Null =>
      /\ h.res.value.summary # <<>>
      /\ Len(h.res.value.recommendedActions) = Cardinality(ToAct(h.res.value.results))

SummaryDisabled(h) == h.params.options # Null /\ h.params.options.generateSummary = FALSE
SummaryEnabled(h) == h.params.options # Null /\ h.params.options.generateSummary = TRUE

\* C22: a batch called with generateSummary = false returns an empty summary and
\* no recommended actions, and the results that the same batch returns with
\* generateSummary = true.
C22_NoSummaryWhenDisabled ==
  /\ \A h \in Batches :
       SummaryDisabled(h) =>
         (h.res.value.summary = <<>> /\ h.res.value.recommendedActions = <<>>)
  /\ \A g, h \in Batches :
       (/\ SummaryEnabled(g) /\ SummaryDisabled(h)
        /\ g.params.messageIds = h.params.messageIds
        /\ g.params.analysisTypes = h.params.analysisTypes)
         => (g.res.value.results = h.res.value.results /\ g.errored = h.errored)

\* C22 witness: the same batch of three ran with and without the summary; one item
\* raised, one record is a cold email to be archived; with the summary there is a
\* recommendation, without it the summary and the recommendations are empty.
C22_Witness ==
  \E g, h \in Batches :
    /\ SummaryEnabled(g) /\ SummaryDisabled(h)
    /\ g.params.messageIds = h.params.messageIds
    /\ Len(h.params.messageIds) = 3 /\ Len(h.errored) = 1
    /\ ToAct(h.res.value.results) # {}
    /\ g.res.value.recommendedActions # <<>> /\ g.res.value.summary # <<>>
    /\ h.res.value.recommendedActions = <<>> /\ h.res.value.summary = <<>>

\* A batch call has returned its outcome: results, summary and recommendedActions
BatchReturned ==
  /\ call[1] = Idle /\ Len(history) = 1 /\ history[1].op = "batch"
  /\ history[1].res.ok
  /\ DOMAIN history[1].res.value = {"results", "summary", "recommendedActions"}

\* C23: when every fetch and every request to the vendor is answered in the end,
\* a batch call that is running returns its outcome in the end, whichever items
\* raised and for whatever cause, and also when every item raised.
C23_BatchAlwaysReturns == (call[1] # Idle) ~> BatchReturned

\* C23 witness: under a configuration without key or with an unknown vendor a
\* batch of two returned although each of its items raised.
C23_Witness ==
  /\ BatchReturned
  /\ env # GuideEnv
  /\ Len(history[1].params.messageIds) = 2
  /\ history[1].errored = <<1, 2>>
  /\ history[1].res.value.results = <<>>
  /\ history[1].vendorCalls = 0

\* C24: a get(k) returns a stored value only when the entry is younger than the
\* TTL, strictly: a get made exactly one TTL after the set returns absent.
C24_EntryVisibleOnlyWhileYoungerThanTtl ==
  (lastOp.op = "get" /\ lastOp.ret # Null)
    => (lastOp.key \in DOMAIN shadow /\ AgeOfLastSet(lastOp.key) < ttl)

\* C25: once a detectColdEmail call has stored a verdict for a sender, no later
\* detectColdEmail call for a message of that sender makes a request to the
\* vendor, however much later it is made.
C25_ColdVerdictIsPermanent ==
  \A i, j \in 1..Len(history) :
    (/\ i < j
     /\ history[i].op = "cold" /\ history[j].op = "cold"
     /\ history[i].email # Null /\ history[j].email # Null
     /\ history[i].email.from = history[j].email.from
     /\ history[i].res.ok /\ history[i].vendorCalls = 1
     /\ <<"cold:", history[i].email.from>> \in DOMAIN history[i].cache1)
      => history[j].vendorCalls = 0

\* C26: whenever the configuration resolves, the model of each tier is the
\* override of the environment when there is one and else the built-in model of
\* the tier's vendor for that tier; and for each supported vendor the built-in
\* model of the default tier differs from the built-in model of the economy tier.
C26_ModelPerTierAndDistinctBuiltIns ==
  /\ getLLMConfig(env).ok =>
       LET config == getLLMConfig(env).value
       IN  /\ config.default.model =
                (IF env.LLM_MODEL # "" THEN env.LLM_MODEL
                 ELSE getDefaultModelForProvider(config.default.provider))
           /\ config.economy.model =
                (IF env.ECONOMY_LLM_MODEL # "" THEN env.ECONOMY_LLM_MODEL
                 ELSE getEconomyModelForProvider(config.economy.provider))
  /\ \A v \in KnownVendors :
       getDefaultModelForProvider(v) # getEconomyModelForProvider(v)

\* C27: whenever the configuration resolves, an unset ECONOMY_LLM_MODEL makes the
\* model of the economy tier the model of the default tier, and an unset
\* ECONOMY_LLM_PROVIDER makes the vendor of the economy tier that of the default tier.
C27_EconomyDefaultsToDefaultTier ==
  getLLMConfig(env).ok =>
    LET config == getLLMConfig(env).value
    IN  /\ env.ECONOMY_LLM_MODEL = "" => config.economy.model = config.default.model
        /\ env.ECONOMY_LLM_PROVIDER = "" =>
             config.economy.provider = config.default.provider

\* The frames of the categorizeEmail and detectColdEmail calls, running and completed
\* (a frame has its key once the cache was looked up, its email once it was fetched)
RunningCachingFrames ==
  {call[t].f : t \in {u \in DOMAIN call :
                        /\ call[u] # Idle /\ call[u].top = "facade"
                        /\ call[u].f # Null
                        /\ call[u].f.op \in {"categorize", "cold"}}}

CachingFrames ==
  {h \in FacadeCalls : h.op \in {"categorize", "cold"}} \cup RunningCachingFrames

ServedFromCache(h) == h.res.ok /\ h.vendorCalls = 0

\* C28 as stated: in every categorizeEmail and detectColdEmail call, also one
\* served from the cache, the email was fetched before the cache was looked up.
C28_FetchBeforeCacheLookup ==
  \A f \in CachingFrames : f.key # <<>> => f.email # Null

\* C28 amended: detectColdEmail fetches the email and then looks up the cache;
\* categorizeEmail looks up the cache and fetches the email only on a miss, so that
\* a call served from the cache fetches nothing; in both, the vendor is asked only
\* after the fetch and the lookup, and the cache is written only after the vendor
\* has answered.
C28_LookupThenFetchInCategorize ==
  /\ \A f \in CachingFrames :
       /\ f.op = "cold" => (f.key # <<>> => f.email # Null)
       /\ f.op = "categorize" => (f.email # Null => f.key # <<>>)
  /\ \A f \in RunningCachingFrames :
       f.req # Null => (f.email # Null /\ f.key # <<>>)
  /\ \A h \in FacadeCalls :
       /\ (h.op = "cold") => h.fetchCalls = 1
       /\ (h.op = "categorize" /\ ServedFromCache(h)) =>
            (h.fetchCalls = 0 /\ h.email = Null)
       /\ (h.op = "categorize" /\ ~ServedFromCache(h)) => h.fetchCalls = 1
       /\ (h.op \in {"categorize", "cold"} /\ h.cache1 # h.cache0 /\ h.key \in DOMAIN h.cache1
             /\ (h.key \notin DOMAIN h.cache0 \/ h.cache0[h.key] # h.cache1[h.key]))
            => (h.vendorCalls = 1 /\ h.res.ok /\ h.cache1[h.key].data = h.res.value)
  /\ \A i \in 1..(Len(history) - 1) :
       LET a == history[i]
           b == history[i + 1]
       IN  (/\ a.op = "categorize" /\ b.op = "categorize"
            /\ a.messageId = b.messageId /\ a.res.ok /\ b.t1 - a.t1 < ttl)
             => (ServedFromCache(b) /\ b.fetchCalls = 0 /\ b.res = a.res)

\* C28 witness: a categorizeEmail call fetched and asked the vendor, and a later
\* call for the same message was served from the cache without a fetch; the
\* mailbox was not touched by the second call.
C28_Witness ==
  /\ Len(history) = 2
  /\ history[1].op = "categorize" /\ history[2].op = "categorize"
  /\ history[1].messageId = history[2].messageId
  /\ history[1].fetchCalls = 1 /\ history[1].vendorCalls = 1 /\ history[1].res.ok
  /\ history[2].t0 > history[1].t1
  /\ ServedFromCache(history[2]) /\ history[2].fetchCalls = 0
  /\ history[2].key # <<>> /\ history[2].email = Null

\* The requests to the vendor that a call sent for facade op
VendorStartsFor(h, op) ==
  Cardinality({k \in StartsOf(h.log, "vendor") : h.log[k].op = op})

\* C29 as stated: when two calls that overlap, or follow each other, within the TTL both
\* return a result for one cache key (two categorizeEmail calls for one message,
\* two detectColdEmail calls for one sender, or such a call and a batch doing the
\* same analysis of the same message), at most one request was sent to the vendor
\* for that key and the two results are the same.
C29_OneVendorCallPerKeyUnderOverlap ==
  /\ \A i, j \in 1..Len(history) :
       LET a == history[i]
           b == history[j]
       IN  (/\ i < j
            /\ a.op \in {"categorize", "cold"} /\ b.op = a.op
            /\ a.key # <<>> /\ a.key = b.key
            /\ a.res.ok /\ b.res.ok)
             => /\ VendorStartsFor(a, a.op) + VendorStartsFor(b, b.op) <= 1
                /\ a.res = b.res
  /\ \A a \in FacadeCalls, g \in Batches :
       (/\ a.op = "categorize" /\ a.res.ok
        /\ g.params.messageIds = <<a.messageId>>
        /\ Len(g.res.value.results) = 1
        /\ g.res.value.results[1].category # <<>>)
         => /\ VendorStartsFor(a, "categorize") + VendorStartsFor(g, "categorize") <= 1
            /\ g.res.value.results[1].category[1] = a.res.value

CachingCalls == {h \in FacadeCalls : h.op \in {"categorize", "cold"} /\ h.key # <<>>}

\* C29 amended: each call sends at most one request to the vendor for its key; a
\* call that finds the key in the cache when it is made sends none and succeeds;
\* and every successful call returns the value that the cache holds under the key
\* when it returns: the stored entry if it did not ask the vendor, its own
\* vendor answer, just stored, if it did.  (Two calls that both look up the key
\* before either has stored each ask the vendor, and the entry is that of the
\* one that stored last.)
C29_OneVendorCallPerCallAndKey ==
  \A b \in CachingCalls :
    /\ VendorStartsFor(b, b.op) <= 1
    /\ b.key \in DOMAIN b.cache0 => (VendorStartsFor(b, b.op) = 0 /\ b.res.ok)
    /\ b.res.ok => (b.key \in DOMAIN b.cache1 /\ b.cache1[b.key].data = b.res.value)

\* C29 witness: two detectColdEmail calls for two messages of one sender
\* overlapped; both asked the vendor and they returned different verdicts, the
\* cache holding that of the call that returned last.
C29_Witness ==
  /\ Len(history) = 2
  /\ history[1].op = "cold" /\ history[2].op = "cold"
  /\ history[1].messageId # history[2].messageId
  /\ history[1].key # <<>> /\ history[1].key = history[2].key
  /\ history[1].res.ok /\ history[2].res.ok
  /\ VendorStartsFor(history[1], "cold") = 1 /\ VendorStartsFor(history[2], "cold") = 1
  /\ history[1].res # history[2].res
  /\ cache[history[2].key].data = history[2].res.value

\* Task t takes the step in which its vendor call succeeds with token counts
TrackingStep(t) == VendorOutcomeStep(t) /\ GsoReturned(t) /\ call'[t].raw.usage # Null

\* Task t takes the step in which a caching facade stores its result
StoringStep(t) ==
  /\ call[t] # Idle /\ call[t].f # Null /\ call[t].f.pc = "gsoDone"
  /\ call[t].f.op \in {"categorize", "cold"}
  /\ call'[t] # call[t]

\* C30: with calls interleaving only at their awaits, every step in which a
\* vendor call succeeds with token counts appends exactly that call's record to
\* the tracker (keeping the last 1000) and no other step changes the tracker, so
\* no record is lost or duplicated; the tracker never holds more than 1000
\* records; every step in which a facade stores writes exactly one whole entry,
\* the validated object and the time, no other step changes the cache, and every
\* entry that get can read is a whole object of the schema of its key.
C30_NoLockingNeeded ==
  [][/\ \A t \in DOMAIN call :
          TrackingStep(t) =>
            LET raw == call'[t].raw
                f == call[t].f
                tier == getLLMConfig(env).value[TierOf(f.op)]
            IN  usage' = LastOf(Append(usage,
                                  [provider |-> tier.provider, model |-> tier.model,
                                   inputTokens |-> raw.usage.promptTokens,
                                   outputTokens |-> raw.usage.completionTokens,
                                   timestamp |-> now, operation |-> LabelOf(f.op)]),
                                MaxUsage)
     /\ (\A t \in DOMAIN call : ~TrackingStep(t)) => usage' = usage
     /\ Len(usage') <= MaxUsage
     /\ \A t \in DOMAIN call :
          StoringStep(t) =>
            /\ DOMAIN cache' = DOMAIN cache \cup {call[t].f.key}
            /\ cache'[call[t].f.key] = [data |-> call[t].f.obj, timestamp |-> now]
            /\ \A k \in DOMAIN cache \ {call[t].f.key} : cache'[k] = cache[k]
     /\ (\A t \in DOMAIN call : ~StoringStep(t)) => cache' = cache
     /\ \A key \in DOMAIN cache' : Conforms(SchemaOfKey(key), cache'[key].data)]_vars

\* C30 witness: two categorizeEmail calls for one message overlapped, each asked
\* the vendor and each answer came with token counts: the tracker holds both
\* records and the cache holds, whole, the result of the call that returned last.
C30_Witness ==
  /\ Len(history) = 2
  /\ history[1].op = "categorize" /\ history[2].op = "categorize"
  /\ history[1].messageId = history[2].messageId
  /\ history[1].res.ok /\ history[2].res.ok
  /\ VendorStartsFor(history[1], "categorize") = 1
  /\ VendorStartsFor(history[2], "categorize") = 1
  /\ history[1].res # history[2].res
  /\ Len(usage) = 2
  /\ usage[1].operation = "categorize_email" /\ usage[2].operation = "categorize_email"
  /\ cache[history[2].key] = [data |-> history[2].res.value, timestamp |-> history[2].t1]

\* The economy-tier vendor requests of call h that succeeded
EconomySuccesses(h) ==
  {j \in 1..Len(h.log) :
     /\ IsStart(h.log[j], "vendor")
     /\ h.log[j].provider = getLLMConfig(env).value.economy.provider
     /\ h.log[j].model = getLLMConfig(env).value.economy.model
     /\ j < Len(h.log) /\ IsEnd(h.log[j + 1], "vendor") /\ h.log[j + 1].ok}

\* Call h obtained the value stored under key from a successful economy-tier
\* vendor call made for its message, validated against the schema of the key
StoredBy(h, key) ==
  /\ h.op \in {"categorize", "cold"}
  /\ h.res.ok /\ h.res.value = cache[key].data
  /\ h.t1 = cache[key].timestamp
  /\ EconomySuccesses(h) # {}
  /\ h.raw # Null /\ h.raw.object = cache[key].data
  /\ Conforms(SchemaOf(h.op), cache[key].data)
  /\ key = (IF h.op = "categorize" THEN <<"categorize:", h.messageId>>
                                   ELSE <<"cold:", mailbox[h.messageId].from>>)

\* C31: every value in the cache was stored by a facade call that got it, validated,
\* from a successful economy-tier vendor call: under categorize:<m> by a
\* categorizeEmail call for message m, under cold:<s> by a detectColdEmail call
\* for a message whose sender is s; nothing else is ever stored.
C31_CacheHoldsOnlyValidatedVendorResults ==
  \A key \in DOMAIN cache :
    /\ key[1] \in {"categorize:", "cold:"}
    /\ \E h \in FacadeCalls : StoredBy(h, key)

\* C31 witness: a call failed and stored nothing, and the cache holds the result of
\* a detectColdEmail call under the sender of its message.
C31_Witness ==
  /\ \E h \in FacadeCalls : ~h.res.ok /\ h.op \in {"categorize", "cold"} /\ h.cache1 = h.cache0
  /\ \E key \in DOMAIN cache :
       /\ key[1] = "cold:"
       /\ \E h \in FacadeCalls : StoredBy(h, key) /\ h.op = "cold"

\* The characters of the strings that cache keys are made of
Chars(s) ==
  CASE s = "categorize:" -> <<"c", "a", "t", "e", "g", "o", "r", "i", "z", "e", ":">>
    [] s = "cold:" -> <<"c", "o", "l", "d", ":">>
    [] s = "m1" -> <<"m", "1">>
    [] s = "m2" -> <<"m", "2">>
    [] s = "sales@vendor.com" -> <<"s", "a", "l", "e", "s", "@", "v", "e", "n", "d", "o", "r",
                                   ".", "c", "o", "m">>
    [] s = "amy@corp.com" -> <<"a", "m", "y", "@", "c", "o", "r", "p", ".", "c", "o", "m">>

\* The Map key: the template string `categorize:${messageId}` or `cold:${from}`
KeyText(key) == Chars(key[1]) \o Chars(key[2])

\* The keys whose entry the step adds, removes or replaces
ChangedKeys ==
  {k \in DOMAIN cache \cup DOMAIN cache' :
     k \notin DOMAIN cache \/ k \notin DOMAIN cache' \/ cache[k] # cache'[k]}

\* The one key a facade call on message id may touch
KeyOfCall(op, id) ==
  CASE op = "categorize" -> {<<"categorize:", id>>}
    [] op = "cold" -> {<<"cold:", mailbox[id].from>>}
    [] OTHER -> {}

\* The keys that the facade taking the step may touch
KeysOfStep ==
  IF Len(history') > Len(history)
    THEN LET h == history'[Len(history')] IN KeyOfCall(h.op, h.messageId)
    ELSE UNION {KeyOfCall(call'[t].f.op, call'[t].f.messageId) :
                  t \in {u \in DOMAIN call : call'[u] # call[u] /\ call'[u] # Idle
                                              /\ call'[u].f # Null}}

\* C32: every step of a facade call adds, evicts or replaces at most one cache
\* entry, that of categorize:<m> for categorizeEmail on message m and of
\* cold:<s> for detectColdEmail on an email from s; for every other key get
\* returns after the step what it returned before; and keys of different
\* families or different ids are different strings.
C32_AtMostOneKeyChanges ==
  [][/\ Cardinality(ChangedKeys) <= 1
     /\ ChangedKeys \subseteq KeysOfStep
     /\ \A k \in (DOMAIN cache \cup DOMAIN cache') \ KeysOfStep :
          LLMCache_get(cache', k, now', ttl).ret = LLMCache_get(cache, k, now', ttl).ret
     /\ \A k1, k2 \in DOMAIN cache' : k1 # k2 => KeyText(k1) # KeyText(k2)]_vars

\* C32 witness: a detectColdEmail call found the categorization of its message in
\* the cache, stored its verdict under the sender, and left that categorization
\* as it was.
C32_Witness ==
  \E h \in FacadeCalls :
    /\ h.op = "cold" /\ h.res.ok
    /\ <<"categorize:", h.messageId>> \in DOMAIN h.cache0
    /\ h.key \notin DOMAIN h.cache0
    /\ DOMAIN h.cache1 = {<<"categorize:", h.messageId>>, h.key}
    /\ h.cache1[<<"categorize:", h.messageId>>] = h.cache0[<<"categorize:", h.messageId>>]
    /\ cache = h.cache1

\* Item i of batch g asked the vendor for its categorization, got it, and then
\* failed in a later analysis
PartiallyFailed(g, i) ==
  /\ \E j \in 1..Len(g.errored) : g.errored[j] = i
  /\ \E k \in 1..Len(g.log) :
       IsEnd(g.log[k], "vendor") /\ g.log[k].i = i /\ g.log[k].op = "categorize"
         /\ g.log[k].ok

\* The vendor answers that a call got for operation op
VendorSuccessesFor(g, op) ==
  Cardinality({k \in 1..Len(g.log) :
                 IsEnd(g.log[k], "vendor") /\ g.log[k].op = op /\ g.log[k].ok})

\* C33: when an item of a batch fails in a later analysis after its categorization
\* was obtained from the vendor, the results hold no record of the item, yet the
\* categorization is in the cache and its usage record in the tracker; a later
\* categorizeEmail call, or batch, for the same id made while the entry is
\* younger than the TTL is served that categorization without a vendor call.
C33_PartialFailureKeepsSideEffects ==
  \A n \in 1..Len(history) :
    LET g == history[n]
    IN  g.op = "batch" =>
          \A i \in 1..Len(g.params.messageIds) :
            PartiallyFailed(g, i) =>
              LET id == g.params.messageIds[i]
                  key == <<"categorize:", id>>
                  kept == {j \in 1..Len(g.params.messageIds) :
                             /\ g.params.messageIds[j] = id
                             /\ \A e \in 1..Len(g.errored) : g.errored[e] # j}
              IN  /\ Cardinality({r \in 1..Len(g.res.value.results) :
                                    g.res.value.results[r].messageId = id})
                       = Cardinality(kept)
                  /\ key \in DOMAIN g.cache1
                  /\ Conforms("CategorizationResultSchema", g.cache1[key].data)
                  /\ Cardinality({u \in 1..Len(usage) :
                                    usage[u].operation = "categorize_email"})
                       >= VendorSuccessesFor(g, "categorize")
                  /\ \A l \in (n + 1)..Len(history) :
                       LET h == history[l]
                       IN  /\ (/\ h.op = "categorize" /\ h.messageId = id
                               /\ h.t0 - g.cache1[key].timestamp < ttl)
                                => /\ h.res.ok /\ h.res.value = g.cache1[key].data
                                   /\ VendorStartsFor(h, "categorize") = 0
                           /\ (/\ h.op = "batch" /\ h.params.messageIds = <<id>>
                               /\ h.errored = <<>>
                               /\ h.t1 - g.cache1[key].timestamp < ttl)
                                => /\ VendorStartsFor(h, "categorize") = 0
                                   /\ h.res.value.results[1].category
                                        = <<g.cache1[key].data>>

\* C33 witness: the first item of a batch of two was categorized and then failed
\* in its cold detection, the second item is in the results, and a later
\* categorizeEmail call for the first id returned the cached categorization
\* without a vendor call.
C33_Witness ==
  /\ Len(history) = 2
  /\ history[1].op = "batch" /\ Len(history[1].params.messageIds) = 2
  /\ PartiallyFailed(history[1], 1)
  /\ history[1].errored = <<1>>
  /\ \E k \in 1..Len(history[1].log) :
       IsEnd(history[1].log[k], "vendor") /\ history[1].log[k].i = 1
         /\ history[1].log[k].op = "cold" /\ ~history[1].log[k].ok
  /\ Len(history[1].res.value.results) = 1
  /\ history[2].op = "categorize"
  /\ history[2].messageId = history[1].params.messageIds[1]
  /\ history[2].t0 > history[1].t1
  /\ history[2].res.ok /\ VendorStartsFor(history[2], "categorize") = 0
  /\ history[2].res.value = history[1].cache1[history[2].key].data
  /\ usage # <<>>

\* The lines of summary s of one kind
LinesOf(s, line) == {k \in 1..Len(s) : s[k].line = line}

RECURSIVE SumOfCounts(_, _)
SumOfCounts(s, lines) ==
  IF lines = {} THEN 0
  ELSE LET k == CHOOSE x \in lines : TRUE
       IN  s[k].count + SumOfCounts(s, lines \ {k})

\* The records of results that carry a category; those flagged as cold email
Categorized(results) == {j \in 1..Len(results) : results[j].category # <<>>}
FlaggedCold(results) ==
  {j \in 1..Len(results) :
     results[j].coldDetection # <<>> /\ results[j].coldDetection[1].isColdEmail = TRUE}

\* C34: with generateSummary enabled the summary opens with the number of records
\* in results (the items that did not fail); it has one tally for each category
\* that a record carries, counting the records of that category, so that the
\* tallies sum to the number of records carrying a category; and it ends with
\* the number of records flagged as cold email, whatever their suggested action
\* (the line is left out when that number is zero).
C34_SummaryCountsTheResults ==
  \A g \in Batches :
    SummaryEnabled(g) =>
      LET s == g.res.value.summary
          results == g.res.value.results
          tallies == LinesOf(s, "- category: n")
          colds == LinesOf(s, "n cold emails detected")
      IN  /\ Len(s) >= 1 /\ LinesOf(s, "Analyzed n emails:") = {1}
          /\ s[1].count = Len(results)
          /\ Len(results) = Len(g.params.messageIds) - Len(g.errored)
          /\ Cardinality(tallies) + Cardinality(colds) + 1 = Len(s)
          /\ \A k \in tallies :
               /\ s[k].count = Cardinality({j \in Categorized(results) :
                                  results[j].category[1].category = s[k].category})
               /\ s[k].count >= 1
               /\ \A k2 \in tallies : s[k2].category = s[k].category => k2 = k
          /\ \A j \in Categorized(results) :
               \E k \in tallies : s[k].category = results[j].category[1].category
          /\ SumOfCounts(s, tallies) = Cardinality(Categorized(results))
          /\ IF FlaggedCold(results) = {}
               THEN colds = {}
               ELSE colds = {Len(s)} /\ s[Len(s)].count = Cardinality(FlaggedCold(results))

\* C34 witness: of a batch of three with the summary enabled one item failed; the
\* two records carry categories and one of them is a cold email whose suggested
\* action is ALLOW: it is counted though nothing is recommended for it.
C34_Witness ==
  \E g \in Batches :
    /\ SummaryEnabled(g)
    /\ Len(g.params.messageIds) = 3 /\ Len(g.errored) = 1
    /\ Len(g.res.value.results) = 2
    /\ Cardinality(Categorized(g.res.value.results)) = 2
    /\ Cardinality(FlaggedCold(g.res.value.results)) = 1
    /\ \A j \in FlaggedCold(g.res.value.results) :
         g.res.value.results[j].coldDetection[1].suggestedAction = "ALLOW"
    /\ g.res.value.recommendedActions = <<>>
    /\ g.res.value.summary[Len(g.res.value.summary)] =
         [line |-> "n cold emails detected", count |-> 1]

\* The records that the tracker retains, from those tracked so far
Retained == LastOf(Tracked, MaxUsage)

\* Record r is in the window that starts at since (<<>>: no window)
InWindow(r, since) == since = <<>> \/ r.timestamp >= since[1]

\* The sum of a field over the records lo..hi of q that are in the window
RECURSIVE WindowSum(_, _, _, _, _)
WindowSum(q, field, lo, hi, since) ==
  IF lo > hi THEN 0
  ELSE IF lo = hi THEN (IF InWindow(q[lo], since) THEN q[lo][field] ELSE 0)
  ELSE WindowSum(q, field, lo, (lo + hi) \div 2, since)
         + WindowSum(q, field, (lo + hi) \div 2 + 1, hi, since)

\* C35: getUsage(since) returns exactly the retained records whose timestamp is
\* at or after since, in the order they were tracked, and all the retained
\* records when since is omitted; getTotalTokens(since) returns the sums of
\* their input and of their output token counts.  The retained records are the
\* last 1000 tracked.
C35_WindowedUsageAndTotals ==
  /\ lastOp.op = "getUsage" => lastOp.ret = Retained
  /\ lastOp.op = "getUsageSince" =>
       /\ lastOp.ret = SelectSeq(Retained, LAMBDA r : r.timestamp >= lastOp.since[1])
       /\ \A k \in 1..(Len(lastOp.ret) - 1) :
            lastOp.ret[k].inputTokens < lastOp.ret[k + 1].inputTokens
  /\ lastOp.op = "getTotalTokens" =>
       lastOp.ret = [input |-> WindowSum(Retained, "inputTokens", 1, Len(Retained),
                                         lastOp.since),
                     output |-> WindowSum(Retained, "outputTokens", 1, Len(Retained),
                                          lastOp.since)]

\* C35 witness: the tracker is full and has dropped its oldest record; the total
\* without since, just read, leaves that record out and its output count is
\* below what the total was before the last track call.
C35_Witness ==
  /\ lastOp.op = "getTotalTokens" /\ lastOp.since = <<>>
  /\ Len(history) = MaxUsage + 1
  /\ Len(usage) = MaxUsage
  /\ lastOp.ret.output <
       WindowSum(Tracked, "outputTokens", 1, MaxUsage, <<>>)
  /\ lastOp.ret.input =
       WindowSum(Tracked, "inputTokens", 2, MaxUsage + 1, <<>>)

RECURSIVE ChunksOf(_, _)
\* The consecutive chunks of n items of a list, n > 0
ChunksOf(items, n) ==
  IF items = <<>> THEN <<>>
  ELSE IF Len(items) <= n THEN <<items>>
  ELSE <<SubSeq(items, 1, n)>> \o ChunksOf(SubSeq(items, n + 1, Len(items)), n)

\* The chunk size of a call: batchSize, 10 when omitted or 0
ChunkSize(p) == IF p.batchSize = <<>> \/ p.batchSize[1] = 0 THEN 10 ELSE p.batchSize[1]

\* The batchProcess calls in progress
RunningProcesses == {t \in DOMAIN call : call[t] # Idle /\ call[t].top = "process"}

\* What a completed batchProcess call h with a positive chunk size asked and
\* returned: one request per chunk, in order, one result per chunk; or, when a
\* request raised, the requests up to that chunk and the error
ProcessedByChunks(h) ==
  LET expected == ChunksOf(h.params.items, ChunkSize(h.params))
  IN  IF h.res.ok
        THEN /\ h.asked = expected
             /\ Len(h.res.value) = Len(expected)
             /\ h.vendorCalls = Len(expected)
        ELSE /\ h.asked # <<>> /\ Len(h.asked) <= Len(expected)
             /\ h.asked = SubSeq(expected, 1, Len(h.asked))
             /\ h.vendorCalls = Len(h.asked)

\* C36: batchProcess terminates for every items list and every batchSize, 0,
\* negative and omitted included, given that each vendor call returns: a call in
\* progress has made no more requests than there are items, and it ends; it
\* makes one request per consecutive chunk of batchSize items (10 when omitted),
\* in input order, returns one result per chunk, and stops at the first chunk
\* whose request raises, with that error.
C36_BatchProcessTerminates ==
  /\ [](\A t \in RunningProcesses : Len(call[t].b.asked) <= Len(call[t].p.items))
  /\ [](\A h \in Records :
          (h.op = "process" /\ ChunkSize(h.params) > 0) => ProcessedByChunks(h))
  /\ (RunningProcesses # {}) ~> (RunningProcesses = {})

====
